---------------------------- MODULE Spec2Model ----------------------------
(***************************************************************************)
(* A model of the OpenAPI-to-Kong converter (package convertoas3, function *)
(* Convert) and of the service/upstream factory (package kong).            *)
(*                                                                         *)
(* Strings the converter builds or inspects (paths, names, slugs, URLs)    *)
(* are sequences of characters, one token a byte.  Concatenation is \o.    *)
(***************************************************************************)
EXTENDS Integers, Sequences, FiniteSets, TLC

(***************************************************************************)
(* Go string helpers                                                       *)
(***************************************************************************)

\* the printable ASCII characters, from 32 (space) to 126 (~); the module
\* language has no string for the backtick (96), which keeps its place
AsciiChars ==
    <<" ", "!", "\"", "#", "$", "%", "&", "'", "(", ")", "*", "+",
       ",", "-", ".", "/", "0", "1", "2", "3", "4", "5", "6", "7",
       "8", "9", ":", ";", "<", "=", ">", "?", "@", "A", "B", "C",
       "D", "E", "F", "G", "H", "I", "J", "K", "L", "M", "N", "O",
       "P", "Q", "R", "S", "T", "U", "V", "W", "X", "Y", "Z", "[",
       "\\", "]", "^", "_", "(backtick)", "a", "b", "c", "d", "e", "f", "g",
       "h", "i", "j", "k", "l", "m", "n", "o", "p", "q", "r", "s",
       "t", "u", "v", "w", "x", "y", "z", "{", "|", "}", "~">>

\* the 256 byte values, from 0 to 255, as tokens: a printable character is
\* itself, another byte the token <XX> of its hexadecimal value
ByteTable ==
    <<
       "<00>", "<01>", "<02>", "<03>", "<04>", "<05>", "<06>", "<07>",
       "<08>", "<09>", "<0A>", "<0B>", "<0C>", "<0D>", "<0E>", "<0F>",
       "<10>", "<11>", "<12>", "<13>", "<14>", "<15>", "<16>", "<17>",
       "<18>", "<19>", "<1A>", "<1B>", "<1C>", "<1D>", "<1E>", "<1F>",
       " ", "!", "\"", "#", "$", "%", "&", "'",
       "(", ")", "*", "+", ",", "-", ".", "/",
       "0", "1", "2", "3", "4", "5", "6", "7",
       "8", "9", ":", ";", "<", "=", ">", "?",
       "@", "A", "B", "C", "D", "E", "F", "G",
       "H", "I", "J", "K", "L", "M", "N", "O",
       "P", "Q", "R", "S", "T", "U", "V", "W",
       "X", "Y", "Z", "[", "\\", "]", "^", "_",
       "(backtick)", "a", "b", "c", "d", "e", "f", "g",
       "h", "i", "j", "k", "l", "m", "n", "o",
       "p", "q", "r", "s", "t", "u", "v", "w",
       "x", "y", "z", "{", "|", "}", "~", "<7F>",
       "<80>", "<81>", "<82>", "<83>", "<84>", "<85>", "<86>", "<87>",
       "<88>", "<89>", "<8A>", "<8B>", "<8C>", "<8D>", "<8E>", "<8F>",
       "<90>", "<91>", "<92>", "<93>", "<94>", "<95>", "<96>", "<97>",
       "<98>", "<99>", "<9A>", "<9B>", "<9C>", "<9D>", "<9E>", "<9F>",
       "<A0>", "<A1>", "<A2>", "<A3>", "<A4>", "<A5>", "<A6>", "<A7>",
       "<A8>", "<A9>", "<AA>", "<AB>", "<AC>", "<AD>", "<AE>", "<AF>",
       "<B0>", "<B1>", "<B2>", "<B3>", "<B4>", "<B5>", "<B6>", "<B7>",
       "<B8>", "<B9>", "<BA>", "<BB>", "<BC>", "<BD>", "<BE>", "<BF>",
       "<C0>", "<C1>", "<C2>", "<C3>", "<C4>", "<C5>", "<C6>", "<C7>",
       "<C8>", "<C9>", "<CA>", "<CB>", "<CC>", "<CD>", "<CE>", "<CF>",
       "<D0>", "<D1>", "<D2>", "<D3>", "<D4>", "<D5>", "<D6>", "<D7>",
       "<D8>", "<D9>", "<DA>", "<DB>", "<DC>", "<DD>", "<DE>", "<DF>",
       "<E0>", "<E1>", "<E2>", "<E3>", "<E4>", "<E5>", "<E6>", "<E7>",
       "<E8>", "<E9>", "<EA>", "<EB>", "<EC>", "<ED>", "<EE>", "<EF>",
       "<F0>", "<F1>", "<F2>", "<F3>", "<F4>", "<F5>", "<F6>", "<F7>",
       "<F8>", "<F9>", "<FA>", "<FB>", "<FC>", "<FD>", "<FE>", "<FF>" >>

\* byte value of a token
CodeTable == [c \in { ByteTable[i] : i \in 1..Len(ByteTable) } |->
                 (CHOOSE i \in 1..Len(ByteTable) : ByteTable[i] = c) - 1]

Code(c) == IF c \in DOMAIN CodeTable THEN CodeTable[c] ELSE -1

\* Go's s < t on strings: bytewise lexicographic order (sort.Strings)
RECURSIVE StrLess(_, _)
StrLess(s, t) ==
    IF t = <<>> THEN FALSE
    ELSE IF s = <<>> THEN TRUE
    ELSE IF Code(Head(s)) # Code(Head(t)) THEN Code(Head(s)) < Code(Head(t))
    ELSE StrLess(Tail(s), Tail(t))

\* a variant of SortStrings that sorts in descending order
RECURSIVE SortStringsDescending(_)
SortStringsDescending(S) ==
    IF S = {} THEN <<>>
    ELSE LET m == CHOOSE x \in S : \A y \in S \ {x} : StrLess(y, x)
         IN  <<m>> \o SortStringsDescending(S \ {m})

\* sort.Strings applied to the keys of a map
RECURSIVE SortStrings(_)
SortStrings(S) ==
    IF S = {} THEN <<>>
    ELSE LET m == CHOOSE x \in S : \A y \in S \ {x} : StrLess(x, y)
         IN  <<m>> \o SortStrings(S \ {m})

\* strings.Index(s, sub), 1-based; 0 when sub does not occur in s
IndexOf(s, sub) ==
    LET starts == { i \in 1..(Len(s) - Len(sub) + 1) :
                        SubSeq(s, i, i + Len(sub) - 1) = sub }
    IN  IF starts = {} THEN 0
        ELSE CHOOSE i \in starts : \A j \in starts : i <= j

\* strings.Replace(s, old, new, 1)
ReplaceFirst(s, old, new) ==
    LET i == IndexOf(s, old)
    IN  IF i = 0 THEN s
        ELSE SubSeq(s, 1, i - 1) \o new \o SubSeq(s, i + Len(old), Len(s))

\* strings.ToLower on one character
LowerChar(c) ==
    IF Code(c) >= 65 /\ Code(c) <= 90 THEN AsciiChars[Code(c) - 31 + 32] ELSE c

\* the characters slugify.Slugify leaves in place, [-a-zA-Z0-9]; every
\* other character, "_" included, is replaced by "-"
IsSlugChar(c) ==
    \/ Code(c) >= 97 /\ Code(c) <= 122
    \/ Code(c) >= 65 /\ Code(c) <= 90
    \/ Code(c) >= 48 /\ Code(c) <= 57
    \/ c = "-"

\* the two replacements of slugify.Slugify in one pass: a character that is
\* not left in place becomes "-", and a run of two or more "-" becomes one
RECURSIVE SlugCollapse(_, _)
SlugCollapse(s, out) ==
    IF s = <<>> THEN out
    ELSE LET c == IF IsSlugChar(Head(s)) THEN Head(s) ELSE "-"
         IN  IF c = "-" /\ out # <<>> /\ out[Len(out)] = "-"
             THEN SlugCollapse(Tail(s), out)
             ELSE SlugCollapse(Tail(s), Append(out, c))

\* strings.Trim(s, "-")
RECURSIVE TrimDash(_)
TrimDash(s) ==
    IF s = <<>> THEN s
    ELSE IF Head(s) = "-" THEN TrimDash(Tail(s))
    ELSE IF s[Len(s)] = "-" THEN TrimDash(SubSeq(s, 1, Len(s) - 1))
    ELSE s

\* Slugify on one element, as every call of the converter passes it
\* (slugify.Slugify on ASCII text, which its transliteration leaves as it
\* is): the replacements, the trim, and then the lower-casing
Slugify(name) ==
    LET trimmed == TrimDash(SlugCollapse(name, <<>>))
    IN  [i \in 1..Len(trimmed) |-> LowerChar(trimmed[i])]

(***************************************************************************)
(* Path rewriter: Convert, "convert path parameters to regex captures"     *)
(***************************************************************************)

\* re.FindAllStringSubmatch(path, -1) for the pattern {([^}]+)}: the
\* capture (match[1]) of every leftmost non-overlapping match, in order
RECURSIVE FindAllVars(_)
FindAllVars(s) ==
    IF s = <<>> THEN <<>>
    ELSE IF Head(s) # "{" THEN FindAllVars(Tail(s))
    ELSE LET close == IndexOf(s, <<"}">>)
         IN  IF close = 0 THEN <<>>
             ELSE IF close = 2 THEN FindAllVars(Tail(s))
             ELSE <<SubSeq(s, 2, close - 1)>>
                      \o FindAllVars(SubSeq(s, close + 1, Len(s)))

RegexMatch(varName) == <<"(", "?", "<">> \o varName \o <<">", "[", "^", "#", "?", "/", "]", "+", ")">>

PlaceHolder(varName) == <<"{">> \o varName \o <<"}">>

\* the loop over the matches: each replaces the first occurrence of its
\* placeholder in the path as rewritten so far
RECURSIVE ReplaceVars(_, _)
ReplaceVars(p, vars) ==
    IF vars = <<>> THEN p
    ELSE ReplaceVars(ReplaceFirst(p, PlaceHolder(Head(vars)), RegexMatch(Head(vars))),
                     Tail(vars))

RewritePath(p) == ReplaceVars(p, FindAllVars(p))

RoutePaths(p) == << <<"~">> \o p \o <<"$">> >>


(***************************************************************************)
(* Values read from the OAS document                                       *)
(***************************************************************************)

\* the scope an extension was declared at: the document (no path, no
\* method), a path, or an operation; it stands for the extension's body
DocScope == [path |-> <<>>, method |-> <<>>]
PathScope(p) == [path |-> p, method |-> <<>>]
OpScope(p, m) == [path |-> p, method |-> m]

\* x-kong-service-defaults: absent (nil), or an object; the converter reads
\* only its "protocol" key
NoServiceDefaults == [set |-> FALSE, protocol |-> <<>>, body |-> DocScope]
\* x-kong-upstream-defaults and x-kong-route-defaults: absent, or an object
NoDefaults == [set |-> FALSE, body |-> DocScope]

\* ext.forms holds the extensions of a scope that are not a plain object:
\* "scalar" is a value that is no JSON object, "offsite" a $ref that does
\* not start with #/components/x-kong/, "dangling" a $ref to an entry that
\* is not there, "renamed" a plugin object whose name is not the one in
\* its x-kong-plugin-<name> key.
\* getXKongObject fails when toJsonObject or dereferenceJsonObject does
getXKongObjectErr(ext, key) ==
    key \in DOMAIN ext.forms /\ ext.forms[key] \in {"scalar", "offsite", "dangling"}

\* getServiceDefaults, getUpstreamDefaults, getRouteDefaults: an error
DefaultsErr(ext) == \E key \in {"SD", "UD", "RD"} : getXKongObjectErr(ext, key)

\* getPluginsList: an error from getXKongObject, or "specifies a different
\* name than the config"
getPluginsListErr(ext) ==
    \E key \in DOMAIN ext.forms \ {"SD", "UD", "RD"} :
        getXKongObjectErr(ext, key) \/ ext.forms[key] = "renamed"

\* a parsed server URL (net/url.URL) as far as the factory reads it: the
\* fields Scheme, Host ("host" or "host:port", as written) and Path
URL(scheme, host, path) == [Scheme |-> scheme, Host |-> host, Path |-> path]

\* url.Host == ""
HostIsEmpty(u) == u.Host = <<>>

\* a server of a servers block: its URL template and its variables, a
\* function from the variable's name to its default and its enum
Server(url, variables) == [url |-> url, variables |-> variables]

NoVariables == [n \in {} |-> [default |-> <<>>, enum |-> {}]]

\* UUIDv5(namespace, name): a name-based id, one per name
UUIDv5(name) == <<"uuid5:">> \o name

(***************************************************************************)
(* package kong: the service/upstream factory                              *)
(***************************************************************************)

\* the ASCII digits and letters
IsDigit(c) == Code(c) >= 48 /\ Code(c) <= 57

IsAlpha(c) ==
    \/ Code(c) >= 97 /\ Code(c) <= 122
    \/ Code(c) >= 65 /\ Code(c) <= 90

\* strings.ReplaceAll(s, old, new), old not empty
RECURSIVE ReplaceAll(_, _, _)
ReplaceAll(s, old, new) ==
    LET i == IndexOf(s, old)
    IN  IF i = 0 THEN s
        ELSE SubSeq(s, 1, i - 1) \o new
                 \o ReplaceAll(SubSeq(s, i + Len(old), Len(s)), old, new)

\* strings.ToLower
ToLower(s) == [i \in 1..Len(s) |-> LowerChar(s[i])]

\* net/url getScheme: "scheme:rest"; no scheme when a character that no
\* scheme has comes before the first ":"
RECURSIVE getScheme(_, _)
getScheme(rawURL, i) ==
    IF i > Len(rawURL)
    THEN [err |-> FALSE, scheme |-> <<>>, rest |-> rawURL]
    ELSE IF IsAlpha(rawURL[i]) THEN getScheme(rawURL, i + 1)
    ELSE IF IsDigit(rawURL[i]) \/ rawURL[i] \in {"+", "-", "."}
         THEN IF i = 1 THEN [err |-> FALSE, scheme |-> <<>>, rest |-> rawURL]
              ELSE getScheme(rawURL, i + 1)
    ELSE IF rawURL[i] = ":"
         THEN IF i = 1 THEN [err |-> TRUE, scheme |-> <<>>, rest |-> rawURL]
              ELSE [err |-> FALSE, scheme |-> SubSeq(rawURL, 1, i - 1),
                    rest |-> SubSeq(rawURL, i + 1, Len(rawURL))]
    ELSE [err |-> FALSE, scheme |-> <<>>, rest |-> rawURL]

\* strings.LastIndex(s, c) for a character c, 1-based; 0 when there is none
LastIndexOf(s, c) ==
    LET at == { i \in 1..Len(s) : s[i] = c }
    IN  IF at = {} THEN 0 ELSE CHOOSE i \in at : \A j \in at : j <= i

LastColon(s) == LastIndexOf(s, ":")

AllDigits(s) == \A i \in 1..Len(s) : IsDigit(s[i])

\* net/url validOptionalPort: "" or ":" and digits
validOptionalPort(port) ==
    port = <<>> \/ (Head(port) = ":" /\ AllDigits(Tail(port)))

\* the number a string of digits spells
RECURSIVE DecimalValue(_)
DecimalValue(s) ==
    IF s = <<>> THEN 0
    ELSE 10 * DecimalValue(SubSeq(s, 1, Len(s) - 1)) + (Code(s[Len(s)]) - 48)

\* strconv.Itoa: the digits of a number
RECURSIVE Digits(_)
Digits(n) ==
    IF n < 10 THEN <<AsciiChars[n + 17]>>
    ELSE Digits(n \div 10) \o <<AsciiChars[(n % 10) + 17]>>

\* net/url splitHostPort: the port is what follows the last ":" if that is
\* digits or nothing; the brackets of an IPv6 literal are taken off
splitHostPort(hostPort) ==
    LET colon == LastColon(hostPort)
        split == colon # 0 /\ validOptionalPort(SubSeq(hostPort, colon, Len(hostPort)))
        host  == IF split THEN SubSeq(hostPort, 1, colon - 1) ELSE hostPort
    IN  [host |-> IF host # <<>> /\ Head(host) = "[" /\ host[Len(host)] = "]"
                  THEN SubSeq(host, 2, Len(host) - 1)
                  ELSE host,
         port |-> IF split THEN SubSeq(hostPort, colon + 1, Len(hostPort))
                  ELSE <<>>]

\* URL.Hostname() and URL.Port()
Hostname(u) == splitHostPort(u.Host).host

Port(u) == splitHostPort(u.Host).port

\* a URL of a scheme, a hostname, a port (NoPort: none) and a path
NoPort == -1
Url(scheme, hostname, port, path) ==
    URL(scheme,
        hostname \o (IF port = NoPort THEN <<>> ELSE <<":">> \o Digits(port)),
        path)

NoUrl == URL(<<>>, <<>>, <<>>)

\* net/url ishex and unhex
ishex(c) ==
    \/ IsDigit(c)
    \/ (Code(c) >= 97 /\ Code(c) <= 102)
    \/ (Code(c) >= 65 /\ Code(c) <= 70)

unhex(c) ==
    IF IsDigit(c) THEN Code(c) - 48
    ELSE IF Code(c) >= 97 THEN Code(c) - 97 + 10
    ELSE Code(c) - 65 + 10

\* net/url shouldEscape in encodeHost mode: the characters a host may hold
\* as they are
HostCharOk(c) ==
    \/ IsAlpha(c) \/ IsDigit(c)
    \/ c \in {"-", "_", ".", "~", "!", "$", "&", "'", "(", ")", "*", "+", ",",
              ";", "=", ":", "[", "]", "<", ">", "\""}

\* net/url unescape in the modes encodeHost ("host"), encodeZone ("zone"),
\* encodePath ("path") and encodeUserPassword ("user"), its first pass: "%"
\* must come with two hexadecimal digits; in a host only %25 and the bytes
\* from 0x80 may be escaped; in a zone only %25, %20 and the characters a
\* host may hold as they are; and an ASCII character of a host or zone
\* that is not escaped must be one a host holds
RECURSIVE unescapeFails(_, _)
unescapeFails(s, mode) ==
    IF s = <<>> THEN FALSE
    ELSE IF Head(s) = "%"
    THEN IF Len(s) < 3 \/ ~ishex(s[2]) \/ ~ishex(s[3]) THEN TRUE
         ELSE IF mode = "host" /\ unhex(s[2]) < 8 /\ SubSeq(s, 1, 3) # <<"%", "2", "5">>
         THEN TRUE
         ELSE IF /\ mode = "zone"
                 /\ SubSeq(s, 1, 3) # <<"%", "2", "5">>
                 /\ 16 * unhex(s[2]) + unhex(s[3]) # 32
                 /\ ~HostCharOk(ByteTable[16 * unhex(s[2]) + unhex(s[3]) + 1])
         THEN TRUE
         ELSE unescapeFails(SubSeq(s, 4, Len(s)), mode)
    ELSE IF /\ mode \in {"host", "zone"}
            /\ Code(Head(s)) < 128
            /\ ~HostCharOk(Head(s))
    THEN TRUE
    ELSE unescapeFails(Tail(s), mode)

\* its second pass: "%" and two hexadecimal digits become one byte
RECURSIVE unescaped(_)
unescaped(s) ==
    IF s = <<>> THEN <<>>
    ELSE IF Head(s) = "%"
    THEN <<ByteTable[16 * unhex(s[2]) + unhex(s[3]) + 1]>>
            \o unescaped(SubSeq(s, 4, Len(s)))
    ELSE <<Head(s)>> \o unescaped(Tail(s))

unescape(s, mode) ==
    IF unescapeFails(s, mode) THEN [err |-> TRUE, s |-> <<>>]
    ELSE [err |-> FALSE, s |-> unescaped(s)]

\* the three parts of an IPv6 literal with a zone, unescaped
joinUnescaped(host1, host2, host3) ==
    [err |-> host1.err \/ host2.err \/ host3.err,
     s   |-> host1.s \o host2.s \o host3.s]

\* net/url parseHost: an IPv6 literal in brackets with an optional port, or
\* a host whose last ":" must start an optional port
parseHost(host) ==
    IF host # <<>> /\ Head(host) = "["
    THEN LET i    == LastIndexOf(host, "]")
             zone == IndexOf(SubSeq(host, 1, i - 1), <<"%", "2", "5">>)
         IN  IF i = 0 THEN [err |-> TRUE, s |-> <<>>]
             ELSE IF ~validOptionalPort(SubSeq(host, i + 1, Len(host)))
             THEN [err |-> TRUE, s |-> <<>>]
             ELSE IF zone # 0
             THEN joinUnescaped(unescape(SubSeq(host, 1, zone - 1), "host"),
                                unescape(SubSeq(host, zone, i - 1), "zone"),
                                unescape(SubSeq(host, i, Len(host)), "host"))
             ELSE unescape(host, "host")
    ELSE IF /\ LastColon(host) # 0
            /\ ~validOptionalPort(SubSeq(host, LastColon(host), Len(host)))
    THEN [err |-> TRUE, s |-> <<>>]
    ELSE unescape(host, "host")

\* net/url validUserinfo
validUserinfo(s) ==
    \A i \in 1..Len(s) :
        \/ IsAlpha(s[i]) \/ IsDigit(s[i])
        \/ s[i] \in {"-", ".", "_", ":", "~", "!", "$", "&", "'", "(", ")", "*",
                     "+", ",", ";", "=", "%", "@"}

\* net/url parseAuthority: "[userinfo@]host"; the host, or an error of the
\* host or of the user information (which the factory does not read)
parseAuthority(authority) ==
    LET at == LastIndexOf(authority, "@")
    IN  IF at = 0 THEN parseHost(authority)
        ELSE IF parseHost(SubSeq(authority, at + 1, Len(authority))).err
        THEN [err |-> TRUE, s |-> <<>>]
        ELSE IF \/ ~validUserinfo(SubSeq(authority, 1, at - 1))
                \/ unescape(SubSeq(authority, 1, at - 1), "user").err
        THEN [err |-> TRUE, s |-> <<>>]
        ELSE parseHost(SubSeq(authority, at + 1, Len(authority)))

\* the URL of a scheme, a parsed host and a path set by setPath, or the
\* error of either
urlOrError(scheme, host, path) ==
    IF host.err \/ path.err THEN [err |-> TRUE, url |-> NoUrl]
    ELSE [err |-> FALSE, url |-> URL(scheme, host.s, path.s)]

\* "rest, url.RawQuery, _ = strings.Cut(rest, "?")": what comes before the
\* first "?" (a lone trailing "?" is cut off as well)
cutQuery(rest) ==
    IF IndexOf(rest, <<"?">>) = 0 THEN rest
    ELSE SubSeq(rest, 1, IndexOf(rest, <<"?">>) - 1)

\* the authority of "//authority[/path]" and what follows it
authorityOf(rest) ==
    IF IndexOf(SubSeq(rest, 3, Len(rest)), <<"/">>) = 0
    THEN SubSeq(rest, 3, Len(rest))
    ELSE SubSeq(rest, 3, IndexOf(SubSeq(rest, 3, Len(rest)), <<"/">>) + 1)

afterAuthority(rest) ==
    IF IndexOf(SubSeq(rest, 3, Len(rest)), <<"/">>) = 0 THEN <<>>
    ELSE SubSeq(rest, IndexOf(SubSeq(rest, 3, Len(rest)), <<"/">>) + 2, Len(rest))

\* net/url parse with viaRequest, once the query is cut off: a rootless
\* rest is opaque under a scheme and an error without one; "//" after a
\* scheme starts the authority, which ends at the next "/"; setPath
\* unescapes the path
parseRest(scheme, rest) ==
    IF rest = <<>> \/ Head(rest) # "/"
    THEN IF scheme # <<>>
         THEN [err |-> FALSE, url |-> URL(scheme, <<>>, <<>>)]
         ELSE [err |-> TRUE, url |-> NoUrl]
    ELSE IF scheme # <<>> /\ Len(rest) >= 2 /\ rest[2] = "/"
    THEN urlOrError(scheme, parseAuthority(authorityOf(rest)),
                    unescape(afterAuthority(rest), "path"))
    ELSE urlOrError(scheme, [err |-> FALSE, s |-> <<>>], unescape(rest, "path"))

\* net/url parse, after getScheme returned s
parseAfterScheme(s) ==
    IF s.err THEN [err |-> TRUE, url |-> NoUrl]
    ELSE parseRest(ToLower(s.scheme), cutQuery(s.rest))

\* url.ParseRequestURI: an error or a URL; a control character (a byte
\* below 0x20, or 0x7f) is an error
ParseRequestURI(rawURL) ==
    IF \E i \in 1..Len(rawURL) : Code(rawURL[i]) < 32 \/ Code(rawURL[i]) = 127
    THEN [err |-> TRUE, url |-> NoUrl]
    ELSE IF rawURL = <<>> THEN [err |-> TRUE, url |-> NoUrl]
    ELSE IF rawURL = <<"*">> THEN [err |-> FALSE, url |-> URL(<<>>, <<>>, <<"*">>)]
    ELSE parseAfterScheme(getScheme(rawURL, 1))

\* every order of the names in S: the orders a range over a map can take
RECURSIVE OrdersOf(_)
OrdersOf(S) ==
    IF S = {} THEN {<<>>}
    ELSE UNION { { <<x>> \o p : p \in OrdersOf(S \ {x}) } : x \in S }

\* the orders in which one call of parseServerUris can range over the
\* variables of each of its servers
RECURSIVE RangeOrders(_)
RangeOrders(servers) ==
    IF servers = <<>> THEN {<<>>}
    ELSE { <<o>> \o rest :
             o \in OrdersOf(DOMAIN Head(servers).variables),
             rest \in RangeOrders(Tail(servers)) }

\* "for name, svar := range server.Variables": the replacements, in the
\* order the range takes
RECURSIVE RenderVariables(_, _, _)
RenderVariables(uriString, variables, order) ==
    IF order = <<>> THEN uriString
    ELSE RenderVariables(
             ReplaceAll(uriString, <<"{">> \o Head(order) \o <<"}">>,
                        variables[Head(order)].default),
             variables, Tail(order))

\* "if err != nil { return targets, fmt.Errorf(...) }": the error of the
\* first URL that does not parse, else the URLs
targetsOrError(parsed) ==
    IF \E i \in 1..Len(parsed) : parsed[i].err
    THEN [err |-> TRUE, targets |-> <<>>]
    ELSE [err |-> FALSE, targets |-> [i \in 1..Len(parsed) |-> parsed[i].url]]

\* parseServerUris: one URL per server, "/" alone for an empty block; an
\* error when a rendered URL does not parse
parseServerUris(servers, order) ==
    IF Len(servers) = 0
    THEN [err |-> FALSE, targets |-> << ParseRequestURI(<<"/">>).url >>]
    ELSE targetsOrError([i \in 1..Len(servers) |->
                            ParseRequestURI(RenderVariables(servers[i].url,
                                                            servers[i].variables,
                                                            order[i]))])

\* "set the hostname if unset"
hostIfUnset(target) ==
    IF target.Host = <<>> THEN [target EXCEPT !.Host = <<"l", "o", "c", "a", "l", "h", "o", "s", "t">>]
    ELSE target

\* "set the scheme if unset": detected from the port, as Port() spells it
schemeIfUnset(target, schemeDefault) ==
    IF target.Scheme # <<>> THEN target
    ELSE [target EXCEPT !.Scheme =
             CASE Port(target) = <<"8", "0">>      -> <<"h", "t", "t", "p">>
               [] Port(target) = <<"4", "4", "3">> -> <<"h", "t", "t", "p", "s">>
               [] OTHER                            -> schemeDefault]

\* "set the port if unset (but a host is given)": ":80" or ":443" is
\* appended to Host
portIfUnset(target) ==
    IF target.Host # <<>> /\ Port(target) = <<>>
    THEN CASE target.Scheme = <<"h", "t", "t", "p">>  ->
                  [target EXCEPT !.Host = @ \o <<":", "8", "0">>]
           [] target.Scheme = <<"h", "t", "t", "p", "s">> ->
                  [target EXCEPT !.Host = @ \o <<":", "4", "4", "3">>]
           [] OTHER -> target
    ELSE target

\* setServerDefaults, applied to one target
setServerDefault(target, schemeDefault) ==
    portIfUnset(schemeIfUnset(hostIfUnset(target), schemeDefault))

setServerDefaults(targets, schemeDefault) ==
    [i \in 1..Len(targets) |-> setServerDefault(targets[i], schemeDefault)]

\* strconv.ParseInt(s, 10, 16) on digits, with its error ignored: a value
\* above the int16 range comes back as the largest int16
MaxInt16 == 32767
ParseInt16(port) ==
    IF DecimalValue(port) > MaxInt16 THEN MaxInt16 ELSE DecimalValue(port)

UpstreamName(baseName) == baseName \o <<".", "u", "p", "s", "t", "r", "e", "a", "m">>

NoUpstream ==
    [set |-> FALSE, defaults |-> NoDefaults, id |-> <<>>, name |-> <<>>,
     targets |-> <<>>]

\* createKongUpstream once parseServerUris returned: "https" is the default
\* scheme; each target is the URL's Host, "hostname[:port]"
upstreamOf(baseName, upstreamDefaults, parsed) ==
    LET targets == setServerDefaults(parsed.targets, <<"h", "t", "t", "p", "s">>)
    IN  [err      |-> parsed.err,
         set      |-> ~parsed.err,
         defaults |-> upstreamDefaults,
         id       |-> UUIDv5(UpstreamName(baseName)),
         name     |-> UpstreamName(baseName),
         targets  |-> [i \in 1..Len(targets) |-> [target |-> targets[i].Host]]]

\* createKongUpstream: the servers are parsed again
createKongUpstream(baseName, servers, upstreamDefaults, order) ==
    upstreamOf(baseName, upstreamDefaults, parseServerUris(servers, order))

\* a variant of NeedsUpstream that looks at the number of servers only
NeedsUpstreamForServers(targets, upstreamDefaults) == Len(targets) # 1

\* "we need an upstream if; a) upstream defaults are provided, or b) there
\* is more than one entry in the servers block"
NeedsUpstream(targets, upstreamDefaults) ==
    ~(Len(targets) = 1 /\ ~upstreamDefaults.set)

\* a variant of DefaultPort with 443 for https and 80 for the others
DefaultPortHttps(scheme) == IF scheme = <<"h", "t", "t", "p", "s">> THEN 443 ELSE 80

\* "no port provided, so set it based on scheme, where https/443 is the
\* default"
DefaultPort(scheme) == IF scheme # <<"h", "t", "t", "p">> THEN 443 ELSE 80

NoService ==
    [defaults |-> NoServiceDefaults, id |-> <<>>, name |-> <<>>, plugins |-> <<>>,
     routes |-> <<>>, protocol |-> <<>>, path |-> <<>>, port |-> 0, host |-> <<>>]

\* CreateKongService once parseServerUris returned parsed; made is what
\* createKongUpstream returns if it is called
serviceOf(baseName, serviceDefaults, upstreamDefaults, parsed, made) ==
    LET defaultScheme == IF serviceDefaults.set /\ serviceDefaults.protocol # <<>>
                         THEN serviceDefaults.protocol
                         ELSE <<"h", "t", "t", "p", "s">>
        targets  == setServerDefaults(parsed.targets, defaultScheme)
        port     == IF Port(targets[1]) # <<>>
                    THEN ParseInt16(Port(targets[1]))
                    ELSE DefaultPort(targets[1].Scheme)
        upstream == IF NeedsUpstream(targets, upstreamDefaults)
                    THEN [f \in DOMAIN NoUpstream |-> made[f]]
                    ELSE NoUpstream
        service  == [defaults |-> serviceDefaults,
                     id       |-> UUIDv5(baseName \o <<".", "s", "e", "r", "v", "i", "c", "e">>),
                     name     |-> baseName,
                     plugins  |-> <<>>,
                     routes   |-> <<>>,
                     protocol |-> targets[1].Scheme,
                     path     |-> targets[1].Path,
                     port     |-> port,
                     host     |-> IF upstream.set THEN upstream.name
                                  ELSE Hostname(targets[1])]
    IN  IF parsed.err \/ (NeedsUpstream(targets, upstreamDefaults) /\ made.err)
        THEN [err |-> TRUE, service |-> NoService, upstream |-> NoUpstream]
        ELSE [err |-> FALSE, service |-> service, upstream |-> upstream]

\* CreateKongService: an error, or the service and the upstream or
\* NoUpstream (nil).  order and upstreamOrder are the orders in which its
\* two calls of parseServerUris range over the server variables.
CreateKongService(baseName, servers, serviceDefaults, upstreamDefaults, order, upstreamOrder) ==
    serviceOf(baseName, serviceDefaults, upstreamDefaults,
              parseServerUris(servers, order),
              createKongUpstream(baseName, servers, upstreamDefaults, upstreamOrder))


(***************************************************************************)
(* package convertoas3: plugin lists                                       *)
(***************************************************************************)

ValidatorName == "request-validator"

\* the plugin and content-type names of the model's inputs, in Go's string
\* order (sort.Strings, and > on strings)
NameRank(n) ==
    CASE n = "application/json"                -> 1
      [] n = "application/json; charset=utf-8" -> 2
      [] n = "key-auth"                        -> 3
      [] n = "request-validator"               -> 4
      [] n = "text/plain"                      -> 5
      [] n = "zipkin"                          -> 6
      [] OTHER                                 -> 0

NameLess(a, b) == NameRank(a) < NameRank(b)

\* the characters of a plugin name
NameChars(n) ==
    CASE n = "key-auth"          -> <<"k", "e", "y", "-", "a", "u", "t", "h">>
      [] n = "request-validator" -> <<"r", "e", "q", "u", "e", "s", "t", "-", "v", "a",
                                      "l", "i", "d", "a", "t", "o", "r">>
      [] n = "zipkin"            -> <<"z", "i", "p", "k", "i", "n">>
      [] OTHER                   -> <<>>

\* the "config" object of a plugin; only the request-validator's keys are
\* read: absent keys are <<>> (a list) and "" (a string)
EmptyConfig ==
    [parameter_schema |-> <<>>, body_schema |-> "",
     allowed_content_types |-> <<>>, version |-> ""]

\* a plugin entry; body is the scope whose x-kong-plugin-<name> extension
\* the entry's content comes from.  NoPlugin is nil ([]byte of length 0).
NoPlugin == [name |-> "", id |-> <<>>, body |-> DocScope, config |-> EmptyConfig]

\* createPluginId
createPluginId(baseName, pluginName) ==
    UUIDv5(baseName \o <<".", "p", "l", "u", "g", "i", "n", ".">> \o NameChars(pluginName))

\* sort.Strings over the keys of the plugins map, then the entries in that
\* order
RECURSIVE SortNames(_)
SortNames(S) ==
    IF S = {} THEN <<>>
    ELSE LET m == CHOOSE x \in S : \A y \in S \ {x} : NameLess(x, y)
         IN  <<m>> \o SortNames(S \ {m})

\* a variant of PluginEntry in which an inherited entry keeps the id it had
\* in the ancestor's list
PluginEntryKeepId(name, ext, pluginsToInclude, baseName) ==
    IF name \in DOMAIN ext.plugins
    THEN [name   |-> name,
          id     |-> createPluginId(baseName, name),
          body   |-> ext.scope,
          config |-> ext.plugins[name]]
    ELSE LET i == CHOOSE i \in 1..Len(pluginsToInclude) :
                      pluginsToInclude[i].name = name
         IN  pluginsToInclude[i]

\* the entry a name maps to: the local extension wins over the inherited
\* entry of the same name; either gets an id from the current base name
PluginEntry(name, ext, pluginsToInclude, baseName) ==
    IF name \in DOMAIN ext.plugins
    THEN [name   |-> name,
          id     |-> createPluginId(baseName, name),
          body   |-> ext.scope,
          config |-> ext.plugins[name]]
    ELSE LET i == CHOOSE i \in 1..Len(pluginsToInclude) :
                      pluginsToInclude[i].name = name
         IN  [pluginsToInclude[i] EXCEPT !.id = createPluginId(baseName, name)]

\* getPluginsList: pluginsToInclude = <<>> stands for nil as well
getPluginsList(ext, pluginsToInclude, baseName) ==
    LET names  == { pluginsToInclude[i].name : i \in 1..Len(pluginsToInclude) }
                      \cup DOMAIN ext.plugins
        sorted == SortNames(names)
    IN  [i \in 1..Len(sorted) |->
            PluginEntry(sorted[i], ext, pluginsToInclude, baseName)]

\* a variant of getValidatorPlugin in which an inherited config, if there is
\* one, is kept over the entry of the list
getValidatorPluginInherited(list, currentConfig) ==
    LET found == { i \in 1..Len(list) : list[i].name = ValidatorName }
    IN  IF found = {}
        THEN [config |-> currentConfig, list |-> list]
        ELSE LET i == CHOOSE i \in found : \A j \in found : i <= j
             IN  [config |-> IF currentConfig.name # "" THEN currentConfig
                             ELSE list[i],
                  list   |-> SubSeq(list, 1, i - 1) \o SubSeq(list, i + 1, Len(list))]

\* getValidatorPlugin: the request-validator entry taken out of the list,
\* or currentConfig and the list as it is
getValidatorPlugin(list, currentConfig) ==
    LET found == { i \in 1..Len(list) : list[i].name = ValidatorName }
    IN  IF found = {}
        THEN [config |-> currentConfig, list |-> list]
        ELSE LET i == CHOOSE i \in found : \A j \in found : i <= j
             IN  [config |-> list[i],
                  list   |-> SubSeq(list, 1, i - 1) \o SubSeq(list, i + 1, Len(list))]

\* insertPlugin.  With k the first (1-based) index whose name is greater
\* than the new plugin's, the code takes list[:k-2], which panics for k = 1
\* (slice bound -1), appends list[k] to it in place (overwriting entry k-1
\* of the shared array) and then appends list[:k-1] as it now reads.
insertPlugin(list, plugin) ==
    IF plugin.name = "" THEN [panic |-> FALSE, list |-> list]
    ELSE LET greater == { i \in 1..Len(list) : NameLess(plugin.name, list[i].name) }
         IN  IF greater = {}
             THEN [panic |-> FALSE, list |-> Append(list, plugin)]
             ELSE LET k == CHOOSE i \in greater : \A j \in greater : i <= j
                      l == SubSeq(list, 1, k - 2) \o <<list[k]>>
                  IN  IF k = 1
                      THEN [panic |-> TRUE, list |-> <<>>]
                      ELSE [panic |-> FALSE, list |-> l \o l]


(***************************************************************************)
(* package convertoas3: the request-validator synthesizer                  *)
(***************************************************************************)

\* getDefaultParamStyle
getDefaultParamStyle(givenStyle, paramType) ==
    IF givenStyle = ""
    THEN CASE paramType = "header" -> "simple"
           [] paramType = "cookie" -> "form"
           [] paramType = "query"  -> "form"
           [] paramType = "path"   -> "simple"
           [] OTHER                -> ""
    ELSE givenStyle

\* extractSchema: "" for a nil schema, else the schema as one JSON string
extractSchema(schema) == schema

\* generateParameterSchema: <<>> (nil) when the operation has no parameters
generateParameterSchema(operation) ==
    [i \in 1..Len(operation.parameters) |->
        LET p == operation.parameters[i]
        IN  [explode  |-> (p.explode = "true"),
             in       |-> p.in,
             name     |-> p.name,
             required |-> p.required,
             style    |-> getDefaultParamStyle(p.style, p.in),
             schema   |-> extractSchema(p.schema)]]

\* strings.Contains(strings.ToLower(contentType), "application/json")
IsJsonType(contentType) ==
    contentType \in {"application/json", "application/json; charset=utf-8"}

\* generateBodySchema ranges over the content map and returns at the first
\* JSON content type it meets; Go does not fix the order of that range, so
\* every JSON content type can be the one it returns from
BodySchemaChoices(operation) ==
    LET json == { c \in DOMAIN operation.content : IsJsonType(c) }
    IN  IF json = {} THEN {""}
        ELSE { extractSchema(operation.content[c]) : c \in json }

\* generateContentTypes: the sorted content types, <<>> (nil) if none
generateContentTypes(operation) == SortNames(DOMAIN operation.content)

\* generateValidatorPlugin; bodySchema is what generateBodySchema returned.
\* NoPlugin is the nil result.
generateValidatorPlugin(configJson, operation, baseName, bodySchema) ==
    IF configJson.name = "" THEN NoPlugin
    ELSE
    LET c0 == configJson.config
        ps == generateParameterSchema(operation)
        c1 == IF c0.parameter_schema = <<>> /\ ps # <<>>
              THEN [c0 EXCEPT !.parameter_schema = ps, !.version = "draft4"]
              ELSE c0
        nothing == c1.body_schema = "" /\ bodySchema = ""
                     /\ c1.parameter_schema = <<>>
                     /\ c1.allowed_content_types = <<>>
        c2 == IF c1.body_schema # "" THEN c1
              ELSE IF bodySchema # ""
                   THEN [c1 EXCEPT !.body_schema = bodySchema, !.version = "draft4"]
              ELSE IF c1.parameter_schema = <<>>
                   THEN [c1 EXCEPT !.body_schema = "{}", !.version = "draft4"]
              ELSE c1
        ct == generateContentTypes(operation)
        c3 == IF c2.allowed_content_types = <<>> /\ ct # <<>>
              THEN [c2 EXCEPT !.allowed_content_types = ct]
              ELSE c2
    IN  IF nothing THEN NoPlugin
        ELSE [configJson EXCEPT !.id = createPluginId(baseName, configJson.name),
                                !.config = c3]


(***************************************************************************)
(* Input documents                                                         *)
(*                                                                         *)
(* A document is built from a structure (its paths and their methods) and  *)
(* a set of declarations, each one extension, servers block, parameter or  *)
(* request-body content type at one scope.                                 *)
(***************************************************************************)

GET  == <<"G", "E", "T">>
POST == <<"P", "O", "S", "T">>

PathA == <<"/", "a">>
PathB == <<"/", "{", "b", "}">>

PluginNames == {"key-auth", "request-validator", "zipkin"}

\* what every scope can declare, and what only an operation can
ScopeKinds == {"SD", "UD", "RD", "S1", "S2"} \cup PluginNames
OperationKinds == {"PARAM", "JSON", "JSONUTF8"}
\* ... "TEXT" is a request body of content type text/plain, "RVCT" an
\* x-kong-plugin-request-validator whose config lists allowed_content_types
ValidatorKinds == {"TEXT", "RVCT"}
\* ... and the names: "NAME" is an x-kong-name, "OPID" an operationId
NameKinds == {"NAME"}
OperationNameKinds == {"OPID"}

\* ... x-kong-service-defaults that, unlike "SD", have a protocol
ServiceDefaultsKinds == {"SD", "SD:http", "SD:grpc"}

\* ... and the extensions that are not a plain object: which extension,
\* and what it is instead (the forms of ext.forms)
MalformedKinds ==
    {"SD:scalar", "UD:offsite", "RD:dangling", "key-auth:renamed", "zipkin:scalar"}

MalformedKey(k) ==
    CASE k = "SD:scalar"        -> "SD"
      [] k = "UD:offsite"       -> "UD"
      [] k = "RD:dangling"      -> "RD"
      [] k = "key-auth:renamed" -> "key-auth"
      [] k = "zipkin:scalar"    -> "zipkin"

MalformedForm(k) ==
    CASE k = "SD:scalar"        -> "scalar"
      [] k = "UD:offsite"       -> "offsite"
      [] k = "RD:dangling"      -> "dangling"
      [] k = "key-auth:renamed" -> "renamed"
      [] k = "zipkin:scalar"    -> "scalar"

Decl(scope, kind) == [scope |-> scope, kind |-> kind]

\* the i-th server of the servers block declared at a scope
HostLabel(scope) == SelectSeq(scope.path \o scope.method, IsAlpha)

ServerOf(scope, i) ==
    IF i = 1
    THEN Server(<<"h", "t", "t", "p", "s", ":", "/", "/", "o", "n", "e", ".">> \o HostLabel(scope)
                    \o <<"/", "v", "1">>, NoVariables)
    ELSE Server(<<"h", "t", "t", "p", ":", "/", "/", "t", "w", "o", ".">> \o HostLabel(scope)
                    \o <<":", "8", "0", "8", "0", "/", "v", "2">>, NoVariables)

\* server URLs that are no URL of a server: one without a scheme that does
\* not start with "/", one with a variable that is not declared left in
\* its host, one with a port above 65535
RelativeUrl == <<"e", "x", "a", "m", "p", "l", "e", ".", "c", "o", "m", "/", "v", "1">>
BraceUrl == <<"h", "t", "t", "p", "s", ":", "/", "/", "{", "h", "o", "s", "t", "}", "/", "v", "1">>
BigPortUrl ==
    <<"h", "t", "t", "p", "s", ":", "/", "/", "e", "x", "a", "m", "p", "l", "e", ".", "c", "o", "m", ":", "9", "9", "9", "9", "9", "/">>

MalformedServerKinds == {"S:relative", "S:brace", "S:port"}

ServersOf(scope, D) ==
    IF Decl(scope, "S2") \in D THEN <<ServerOf(scope, 1), ServerOf(scope, 2)>>
    ELSE IF Decl(scope, "S1") \in D THEN <<ServerOf(scope, 1)>>
    ELSE IF Decl(scope, "S:relative") \in D THEN <<Server(RelativeUrl, NoVariables)>>
    ELSE IF Decl(scope, "S:brace") \in D THEN <<Server(BraceUrl, NoVariables)>>
    ELSE IF Decl(scope, "S:port") \in D THEN <<Server(BigPortUrl, NoVariables)>>
    ELSE <<>>

\* the x-kong-name declared at a scope, and the operationId of an operation
KongNameOf(scope) == <<"N", "m", " ">> \o scope.path \o scope.method

OperationIdOf(scope) == <<"o", "p", "I", "d">> \o scope.method

\* a request-validator config that lists its allowed_content_types
ConfigWithContentTypes ==
    [EmptyConfig EXCEPT !.allowed_content_types = <<"text/plain">>]

\* named tells whether the scope has the key x-kong-name, and name is what
\* getKongName returns for it: the string, "" for an absent x-kong-name and
\* for one that is the empty string ("NAME:empty")
ExtOf(scope, D) ==
    [scope   |-> scope,
     forms   |-> [key \in { MalformedKey(k) :
                              k \in { k \in MalformedKinds : Decl(scope, k) \in D } }
                     |-> MalformedForm(CHOOSE k \in MalformedKinds :
                                           /\ Decl(scope, k) \in D
                                           /\ MalformedKey(k) = key)],
     named   |-> \E k \in {"NAME", "NAME:a", "NAME:empty"} : Decl(scope, k) \in D,
     name    |-> IF Decl(scope, "NAME") \in D THEN KongNameOf(scope)
                 ELSE IF Decl(scope, "NAME:a") \in D THEN <<"a">>
                 ELSE <<>>,
     sd      |-> IF \E k \in ServiceDefaultsKinds : Decl(scope, k) \in D
                 THEN [set |-> TRUE,
                       protocol |-> IF Decl(scope, "SD:http") \in D THEN <<"h", "t", "t", "p">>
                                    ELSE IF Decl(scope, "SD:grpc") \in D
                                    THEN <<"g", "r", "p", "c">>
                                    ELSE <<>>,
                       body |-> scope]
                 ELSE NoServiceDefaults,
     ud      |-> IF Decl(scope, "UD") \in D
                 THEN [set |-> TRUE, body |-> scope] ELSE NoDefaults,
     rd      |-> IF Decl(scope, "RD") \in D
                 THEN [set |-> TRUE, body |-> scope] ELSE NoDefaults,
     plugins |-> [n \in { n \in PluginNames :
                                \/ Decl(scope, n) \in D
                                \/ n = ValidatorName /\ Decl(scope, "RVCT") \in D }
                     |-> IF n = ValidatorName /\ Decl(scope, "RVCT") \in D
                         THEN ConfigWithContentTypes ELSE EmptyConfig]]

QueryParamQ ==
    [in |-> "query", name |-> "q", required |-> TRUE, style |-> "",
     explode |-> "nil", schema |-> ""]

ContentOf(scope, D) ==
    [c \in { c \in {"application/json", "application/json; charset=utf-8",
                     "text/plain"} :
               \/ c = "application/json" /\ Decl(scope, "JSON") \in D
               \/ c = "application/json; charset=utf-8"
                    /\ Decl(scope, "JSONUTF8") \in D
               \/ c = "text/plain" /\ Decl(scope, "TEXT") \in D }
        |-> CASE c = "application/json" -> "schemaA"
              [] c = "application/json; charset=utf-8" -> "schemaB"
              [] OTHER -> "schemaT"]

OperationOf(p, m, D) ==
    [ext         |-> ExtOf(OpScope(p, m), D),
     servers     |-> ServersOf(OpScope(p, m), D),
     operationId |-> IF Decl(OpScope(p, m), "OPID") \in D
                     THEN OperationIdOf(OpScope(p, m))
                     ELSE IF Decl(OpScope(p, m), "OPID:a") \in D THEN <<"a">>
                     ELSE IF Decl(OpScope(p, m), "OPID:a_get") \in D
                     THEN <<"a", "_", "g", "e", "t">>
                     ELSE <<>>,
     parameters  |-> IF Decl(OpScope(p, m), "PARAM") \in D
                     THEN <<QueryParamQ>> ELSE <<>>,
     content     |-> ContentOf(OpScope(p, m), D)]

\* structure: a function from the document's paths to their sets of methods
BuildDoc(structure, D) ==
    [title   |-> <<"d">>,
     ext     |-> ExtOf(DocScope, D),
     servers |-> ServersOf(DocScope, D),
     paths   |-> [p \in DOMAIN structure |->
                    [ext     |-> ExtOf(PathScope(p), D),
                     servers |-> ServersOf(PathScope(p), D),
                     ops     |-> [m \in structure[p] |-> OperationOf(p, m, D)]]]]

SlotsOf(structure) ==
    { Decl(DocScope, k) : k \in ScopeKinds \cup NameKinds }
      \cup { Decl(PathScope(p), k) :
                 p \in DOMAIN structure, k \in ScopeKinds \cup NameKinds }
      \cup UNION { { Decl(OpScope(p, m), k) :
                        m \in structure[p],
                        k \in ScopeKinds \cup OperationKinds \cup NameKinds } :
                   p \in DOMAIN structure }

\* a set as a sequence, in some order
RECURSIVE SetToSeq(_)
SetToSeq(S) ==
    IF S = {} THEN <<>>
    ELSE LET x == CHOOSE x \in S : TRUE IN <<x>> \o SetToSeq(S \ {x})

\* the strictly increasing sequences of at most n indices out of 1..size:
\* each picks a set of at most n declarations out of a sequence of slots
RECURSIVE Picks(_, _)
Picks(size, n) ==
    IF n = 0 THEN {<<>>}
    ELSE LET smaller == Picks(size, n - 1)
         IN  smaller \cup
             UNION { { Append(s, i) :
                         i \in (IF s = <<>> THEN 1 ELSE s[Len(s)] + 1)..size } :
                     s \in { t \in smaller : Len(t) = n - 1 } }

DeclsAt(slots, pick) == { slots[pick[i]] : i \in 1..Len(pick) }

\* two paths, three operations, few declarations
WideStructure == (PathA :> {GET, POST}) @@ (PathB :> {GET})
WideSlots == SetToSeq({ d \in SlotsOf(WideStructure) : d.kind \notin NameKinds })
MaxWideDecl == 2
WidePicks == Picks(Len(WideSlots), MaxWideDecl)

\* one path with one operation, more declarations (no route defaults)
ChainStructure == (PathA :> {GET})
ChainSlots ==
    SetToSeq({ d \in SlotsOf(ChainStructure) : d.kind \notin {"RD"} \cup NameKinds })
MaxChainDecl == 4
ChainPicks == Picks(Len(ChainSlots), MaxChainDecl)

\* one path with two operations; names at every scope, an x-kong-name that
\* is the empty string at the path and at one operation, and a few of the
\* other declarations
NamedStructure == (PathA :> {GET, POST})
NamedSlots ==
    SetToSeq({ d \in SlotsOf(NamedStructure) : d.kind \in NameKinds }
             \cup { Decl(OpScope(PathA, m), "OPID") : m \in {GET, POST} }
             \cup { Decl(PathScope(PathA), "NAME:empty"),
                    Decl(OpScope(PathA, GET), "NAME:empty") }
             \cup { Decl(OpScope(PathA, GET), "SD"),
                    Decl(PathScope(PathA), "UD"),
                    Decl(PathScope(PathA), "key-auth") })
MaxNamedDecl == 6
NamedPicks == Picks(Len(NamedSlots), MaxNamedDecl)

\* one path with one operation: the request-validator at every scope, with
\* and without allowed_content_types, and what the validator is made from
ValidatorStructure == (PathA :> {GET})
ValidatorSlots ==
    SetToSeq({ Decl(S, ValidatorName) :
                 S \in {DocScope, PathScope(PathA), OpScope(PathA, GET)} }
             \cup { Decl(OpScope(PathA, GET), k) :
                      k \in {"RVCT", "TEXT", "PARAM", "JSON", "key-auth", "zipkin"} })
MaxValidatorDecl == 4
ValidatorPicks == Picks(Len(ValidatorSlots), MaxValidatorDecl)

\* one path with one operation: at every scope the extensions that are
\* not a plain object and the server URLs that are no URL of a server, next
\* to what makes the operation a service of its own or its route's plugin
\* list one the validator is inserted into
MalformedStructure == (PathA :> {GET})
MalformedSlots ==
    SetToSeq({ Decl(S, k) :
                 S \in {DocScope, PathScope(PathA), OpScope(PathA, GET)},
                 k \in MalformedKinds \cup MalformedServerKinds }
             \cup { Decl(OpScope(PathA, GET), k) : k \in {"SD", "PARAM"} }
             \cup { Decl(DocScope, k) : k \in {"request-validator", "zipkin"} })
MaxMalformedDecl == 2
MalformedPicks == Picks(Len(MalformedSlots), MaxMalformedDecl)

\* two paths with one operation each, where the second path's x-kong-name
\* ("NAME:a") is the first path's text, or its operation's operationId is
\* that text ("OPID:a") or reads as the first operation's path and method
\* ("OPID:a_get", whose slug is a-get); defaults that give the scopes
\* services and upstreams
ClashStructure == (PathA :> {GET}) @@ (PathB :> {GET})
ClashSlots ==
    SetToSeq({ Decl(PathScope(PathB), "NAME:a"),
               Decl(OpScope(PathB, GET), "OPID:a"),
               Decl(OpScope(PathB, GET), "OPID:a_get"),
               Decl(PathScope(PathA), "UD"),
               Decl(PathScope(PathB), "UD"),
               Decl(OpScope(PathA, GET), "UD"),
               Decl(OpScope(PathB, GET), "UD"),
               Decl(OpScope(PathB, GET), "SD") })
MaxClashDecl == 3
ClashPicks == Picks(Len(ClashSlots), MaxClashDecl)

\* the server URL scheme://example.com[:port]/v1; NoPort is no port
Schemes == {<<"h", "t", "t", "p">>, <<"h", "t", "t", "p", "s">>, <<"g", "r", "p", "c">>}
Ports == {1, 80, 443, 8080, 32767, 32768, 50000, 65535}

UrlOf(scheme, port) ==
    scheme \o <<":", "/", "/", "e", "x", "a", "m", "p", "l", "e", ".", "c", "o", "m">>
           \o (IF port = NoPort THEN <<>> ELSE <<":">> \o Digits(port))
           \o <<"/", "v", "1">>

\* a URL that is a path only
PathOnlyUrl == <<"/", "v", "1">>

\* server URLs at the corners of url.ParseRequestURI: an empty port, an
\* authority that is ":" only, a port with a leading zero, "*", an
\* escaped character and a "%" that escapes nothing, a query after a path
\* and after a host, user information, an IPv6 literal, a scheme in upper
\* case, and an IPv6 zone with an escaped "/"
ExampleCom == <<"e", "x", "a", "m", "p", "l", "e", ".", "c", "o", "m">>

CornerUrls ==
    { <<"h", "t", "t", "p", ":", "/", "/">> \o ExampleCom \o <<":", "/", "v", "1">>,
      <<"g", "r", "p", "c", ":", "/", "/">> \o ExampleCom \o <<":", "/", "v", "1">>,
      <<"h", "t", "t", "p", ":", "/", "/", ":", "/", "v", "1">>,
      <<"h", "t", "t", "p", ":", "/", "/">> \o ExampleCom \o <<":", "0", "8", "0", "/", "v", "1">>,
      <<"*">>,
      <<"h", "t", "t", "p", ":", "/", "/">> \o ExampleCom \o <<"/", "%", "4", "1">>,
      <<"h", "t", "t", "p", ":", "/", "/">> \o ExampleCom \o <<"/", "%">>,
      <<"h", "t", "t", "p", ":", "/", "/">> \o ExampleCom \o <<"/", "v", "1", "?", "x", "=", "1">>,
      <<"h", "t", "t", "p", ":", "/", "/">> \o ExampleCom \o <<"?", "x", "=", "1">>,
      <<"h", "t", "t", "p", ":", "/", "/", "u", "@">> \o ExampleCom \o <<"/", "v", "1">>,
      <<"h", "t", "t", "p", ":", "/", "/", "[", ":", ":", "1", "]", ":", "8", "0", "/", "v", "1">>,
      <<"H", "T", "T", "P", ":", "/", "/">> \o ExampleCom \o <<"/", "v", "1">>,
      <<"h", "t", "t", "p", "s", ":", "/", "/", "[", "f", "e", "8", "0", ":", ":", "1",
        "%", "2", "5", "e", "n", "0", "%", "2", "F", "]", "/", "p">> }

\* one path with one operation; one servers block at the document, with
\* service defaults that name a protocol or upstream defaults or neither
ServerStructure == (PathA :> {GET})
ServerBlocks ==
    {<<>>, <<Server(PathOnlyUrl, NoVariables)>>}
      \cup { <<Server(UrlOf(scheme, port), NoVariables)>> :
                 scheme \in Schemes, port \in Ports \cup {NoPort} }
      \cup { <<Server(url, NoVariables)>> : url \in CornerUrls }
      \cup { <<Server(UrlOf(<<"h", "t", "t", "p", "s">>, NoPort), NoVariables),
               Server(UrlOf(<<"h", "t", "t", "p">>, 8080), NoVariables)>>,
             <<Server(PathOnlyUrl, NoVariables),
               Server(UrlOf(<<"h", "t", "t", "p">>, 80), NoVariables)>> }
\* servers with variables: two variables in the host, each with an enum of
\* two; one variable that occurs twice; and one whose default is the
\* placeholder of the other
Variable(default, enum) == [default |-> default, enum |-> enum]

VariableBlocks ==
    { << Server(<<"h", "t", "t", "p", ":", "/", "/", "{", "v", "a", "r", "1", "}", "-", "{", "v", "a", "r", "2", "}",
                  ".", "c", "o", "m", "/", "c", "h", "o", "c", "o", "l", "a", "t", "e", "/", "c", "o", "o", "k", "i", "e">>,
                (<<"v", "a", "r", "1">> :> Variable(<<"h", "e", "l", "l", "o">>, {<<"h", "e", "l", "l", "o">>, <<"w", "o", "r", "l", "d">>}))
                  @@ (<<"v", "a", "r", "2">> :> Variable(<<"W", "e", "l", "t">>, {<<"h", "a", "l", "l", "o">>, <<"W", "e", "l", "t">>}))) >>,
      << Server(<<"h", "t", "t", "p", "s", ":", "/", "/", "{", "v", "}", ".", "e", "x", "a", "m", "p", "l", "e", ".", "c", "o", "m",
                  "/", "{", "v", "}">>,
                (<<"v">> :> Variable(<<"x">>, {<<"x">>, <<"y">>}))) >>,
      << Server(<<"h", "t", "t", "p", "s", ":", "/", "/", "e", "x", "a", "m", "p", "l", "e", ".", "c", "o", "m", "/", "{", "a", "}">>,
                (<<"a">> :> Variable(<<"{", "b", "}">>, {}))
                  @@ (<<"b">> :> Variable(<<"v", "2">>, {}))) >> }

ServerDecls == SUBSET { Decl(DocScope, k) : k \in {"SD:http", "SD:grpc", "UD"} }

ServerDoc(block, D) == [BuildDoc(ServerStructure, D) EXCEPT !.servers = block]

\* one path of up to MaxPathLen characters after its "/", two operations,
\* no declarations
PathAlphabet == {"/", "{", "}", "a", "-"}
MaxPathLen == 4
RECURSIVE StringsUpTo(_)
StringsUpTo(n) ==
    IF n = 0 THEN {<<>>}
    ELSE LET shorter == StringsUpTo(n - 1)
         IN  shorter \cup { Append(w, c) : w \in shorter, c \in PathAlphabet }

\* the documents a run may be given
IsInputDoc(d) ==
    \/ \E pick \in WidePicks : d = BuildDoc(WideStructure, DeclsAt(WideSlots, pick))
    \/ \E pick \in ChainPicks : d = BuildDoc(ChainStructure, DeclsAt(ChainSlots, pick))
    \/ \E pick \in NamedPicks : d = BuildDoc(NamedStructure, DeclsAt(NamedSlots, pick))
    \/ \E block \in ServerBlocks \cup VariableBlocks, D \in ServerDecls :
           d = ServerDoc(block, D)
    \/ \E pick \in MalformedPicks :
           d = BuildDoc(MalformedStructure, DeclsAt(MalformedSlots, pick))
    \/ \E pick \in ValidatorPicks :
           d = BuildDoc(ValidatorStructure, DeclsAt(ValidatorSlots, pick))
    \/ \E w \in StringsUpTo(MaxPathLen) :
           d = BuildDoc((<<"/">> \o w) :> {GET, POST}, {})
    \/ \E pick \in ClashPicks : d = BuildDoc(ClashStructure, DeclsAt(ClashSlots, pick))

(***************************************************************************)
(* Schemas: openapi3.SchemaRef and openapi3.Schema                        *)
(*                                                                         *)
(* A Schema is referred to by its position in a table of schemas; a        *)
(* SchemaRef is the $ref it was written as ("" when written in line) and   *)
(* the schema it resolves to.                                              *)
(***************************************************************************)

\* a nil *SchemaRef
SchemaNil == [ref |-> "", value |-> 0]

\* the schemas of the table: one written in line at the root, the
\* components A and B, one written in line below the root, and one written
\* in line that has no subschemas
RootSchema == 1
SchemaA == 2
SchemaB == 3
InnerSchema == 4
LeafSchema == 5
SchemaIds == {RootSchema, SchemaA, SchemaB, InnerSchema, LeafSchema}

\* the $ref a schema is referred to by
RefOf(id) ==
    CASE id = SchemaA -> "#/components/schemas/A"
      [] id = SchemaB -> "#/components/schemas/B"
      [] OTHER        -> ""

SchemaRefTo(id) == [ref |-> RefOf(id), value |-> id]

\* a subschema: the schema that has it, the field it is in (and the key
\* under properties), and the schema it is
Edge(from, field, key, to) == [from |-> from, field |-> field, key |-> key, to |-> to]

SchemaEdgeSlots ==
    { Edge(RootSchema, f[1], f[2], to) :
        f \in {<<"allOf", "">>, <<"properties", "p">>, <<"properties", "q">>},
        to \in {SchemaA, SchemaB, InnerSchema, LeafSchema} }
      \cup { Edge(InnerSchema, "items", "", to) : to \in {SchemaA, SchemaB} }
      \cup { Edge(SchemaA, f[1], f[2], to) :
                f \in {<<"anyOf", "">>, <<"not", "">>, <<"properties", "p">>},
                to \in {SchemaA, SchemaB, LeafSchema} }
      \cup { Edge(SchemaB, f[1], f[2], to) :
                f \in {<<"oneOf", "">>, <<"additionalProperties", "">>},
                to \in {SchemaA, SchemaB} }

\* a field that holds one subschema holds one
EdgesFit(E) ==
    \A e \in E, g \in E :
        (e.from = g.from /\ e.field = g.field /\ e.key = g.key
            /\ e.field \notin {"allOf", "anyOf", "oneOf"}) => e = g

\* the ids of a set in ascending order
RECURSIVE IdsInOrder(_)
IdsInOrder(S) ==
    IF S = {} THEN <<>>
    ELSE LET m == CHOOSE x \in S : \A y \in S : x <= y
         IN  <<m>> \o IdsInOrder(S \ {m})

\* the schema with a given id, of a set of edges
SchemaOf(E, id) ==
    LET list(field) ==
            LET ids == IdsInOrder({ e.to : e \in { e \in E : e.from = id
                                                            /\ e.field = field } })
            IN  [i \in 1..Len(ids) |-> SchemaRefTo(ids[i])]
        one(field) ==
            IF \E e \in E : e.from = id /\ e.field = field
            THEN SchemaRefTo((CHOOSE e \in E : e.from = id /\ e.field = field).to)
            ELSE SchemaNil
    IN  [allOf |-> list("allOf"),
         anyOf |-> list("anyOf"),
         oneOf |-> list("oneOf"),
         properties |->
             [k \in { e.key : e \in { e \in E : e.from = id
                                                 /\ e.field = "properties" } }
                 |-> SchemaRefTo((CHOOSE e \in E : /\ e.from = id
                                                    /\ e.field = "properties"
                                                    /\ e.key = k).to)],
         not |-> one("not"),
         additionalProperties |-> one("additionalProperties"),
         items |-> one("items")]

SchemaTable(E) == [id \in SchemaIds |-> SchemaOf(E, id)]

NoSchemas == SchemaTable({})

(***************************************************************************)
(* Convert: the state of one run                                           *)
(***************************************************************************)

VARIABLES
    doc,                  \* the parsed OAS document (the input)
    pc,                   \* "document", "paths", "operations", "done", "panic",
                          \* "error"; "unit" when package kong is called
                          \* on its own
    services,             \* the services list; a service is referred to by its index
    upstreams,            \* the upstreams list
    result,               \* what Convert returned: [ok, services, upstreams]
    docBaseName, docServers, docServiceDefaults, docUpstreamDefaults,
    docRouteDefaults, docPluginList, docValidatorConfig,
    sortedPaths,          \* the sorted keys of doc.Paths
    pathIndex,            \* position of the path loop in sortedPaths
    path,                 \* the path loop's variable
    pathitem,             \* doc.Paths[path], read at the top of the iteration
    pathBaseName, pathServers, pathServiceDefaults, pathUpstreamDefaults,
    pathRouteDefaults, pathPluginList, pathValidatorConfig,
    pathService,          \* index in services of the service in use for the path
    newPathService,
    sortedMethods,        \* the sorted keys of pathitem.Operations()
    methodIndex,          \* position of the operation loop in sortedMethods
    operationBaseName,    \* base name of the operation handled last
    operationPluginList,  \* its plugin list as collected ("collect operation
                          \* plugins"), before the request-validator is taken out
    operationValidatorConfig, \* the request-validator config getValidatorPlugin
                          \* returned for it
    validatorPlugin,      \* what generateValidatorPlugin made of that config
    unitIn,               \* the arguments of one call into package kong
    unitOut               \* ... and what the call returned

docVars == <<docBaseName, docServers, docServiceDefaults, docUpstreamDefaults,
             docRouteDefaults, docPluginList, docValidatorConfig, sortedPaths>>
pathVars == <<pathitem, pathBaseName, pathServers, pathServiceDefaults,
              pathUpstreamDefaults, pathRouteDefaults, pathPluginList,
              pathValidatorConfig, pathService, newPathService, sortedMethods>>
opVars == <<operationBaseName, operationPluginList, operationValidatorConfig,
           validatorPlugin>>
unitVars == <<unitIn, unitOut>>
vars == <<doc, pc, services, upstreams, result, docVars, pathIndex, path,
          pathVars, methodIndex, opVars, unitVars>>

\* docService is services[0] in the code
docService == 1

\* nothing returned yet; Convert's error return is (nil, err), pc = "error"
NoResult == [ok |-> FALSE, services |-> <<>>, upstreams |-> <<>>]

NoPathItem == [ext |-> ExtOf(DocScope, {}), servers |-> <<>>, ops |-> <<>>]

\* no call into package kong on its own: the calls Convert makes are part
\* of its steps
NoUnitIn ==
    [servers |-> <<>>, targets |-> <<>>, schemeDefault |-> <<>>,
     serviceDefaults |-> NoServiceDefaults, upstreamDefaults |-> NoDefaults,
     list |-> <<>>, plugin |-> NoPlugin,
     schemas |-> NoSchemas, root |-> SchemaNil]

NoUnitOut ==
    [op |-> "", parsed |-> [err |-> FALSE, targets |-> <<>>], defaulted |-> <<>>,
     created |-> [err |-> FALSE, service |-> NoService, upstream |-> NoUpstream],
     inserted |-> [panic |-> FALSE, list |-> <<>>],
     pending |-> <<>>, seenBefore |-> <<>>, definitions |-> <<>>]

\* the variables of Convert before its first statement
ConvertInit ==
    /\ services = <<>>
    /\ upstreams = <<>>
    /\ result = NoResult
    /\ docBaseName = <<>>
    /\ docServers = <<>>
    /\ docServiceDefaults = NoServiceDefaults
    /\ docUpstreamDefaults = NoDefaults
    /\ docRouteDefaults = NoDefaults
    /\ docPluginList = <<>>
    /\ docValidatorConfig = NoPlugin
    /\ sortedPaths = <<>>
    /\ pathIndex = 1
    /\ path = <<>>
    /\ pathitem = NoPathItem
    /\ pathBaseName = <<>>
    /\ pathServers = <<>>
    /\ pathServiceDefaults = NoServiceDefaults
    /\ pathUpstreamDefaults = NoDefaults
    /\ pathRouteDefaults = NoDefaults
    /\ pathPluginList = <<>>
    /\ pathValidatorConfig = NoPlugin
    /\ pathService = docService
    /\ newPathService = FALSE
    /\ sortedMethods = <<>>
    /\ methodIndex = 1
    /\ operationBaseName = <<>>
    /\ operationPluginList = <<>>
    /\ operationValidatorConfig = NoPlugin
    /\ validatorPlugin = NoPlugin

Init ==
    /\ IsInputDoc(doc)
    /\ pc = "document"
    /\ ConvertInit
    /\ unitIn = NoUnitIn
    /\ unitOut = NoUnitOut

\* newPathService / newOperationService: local service defaults, local
\* upstream defaults or a non-empty local servers block
NeedNewUpstream(ext, servers) == ext.ud.set \/ Len(servers) # 0

\* a variant of NeedNewService in which route defaults ask for a service too
NeedNewServiceOrRoute(ext, servers) ==
    ext.sd.set \/ ext.rd.set \/ NeedNewUpstream(ext, servers)

NeedNewService(ext, servers) == ext.sd.set \/ NeedNewUpstream(ext, servers)

\* a variant of NewServiceHost that leaves the host as the factory set it
NewServiceHostAsCreated(created, newUpstream, parentHost) == created.service.host

\* "we have a new upstream, but do we need it?": the host of a new path or
\* operation service
NewServiceHost(created, newUpstream, parentHost) ==
    IF created.upstream.set /\ ~newUpstream THEN parentHost
    ELSE created.service.host

\* a variant of KeepUpstream that keeps every upstream the factory made
KeepUpstreamAlways(created, newUpstream) == created.upstream.set

\* ... and whether its upstream goes to the upstreams list
KeepUpstream(created, newUpstream) == created.upstream.set /\ newUpstream

\* x-kong-name if given, else the fallback
NameOr(ext, fallback) == IF ext.name # <<>> THEN ext.name ELSE fallback

\* "Handle OAS Document level"
ConvertDocumentWith(order, upstreamOrder) ==
    LET baseName == Slugify(NameOr(doc.ext, doc.title))
        plugins  == getPluginsList(doc.ext, <<>>, baseName)
        split    == getValidatorPlugin(plugins, NoPlugin)
    IN  \E created \in {CreateKongService(baseName, doc.servers, doc.ext.sd,
                                          doc.ext.ud, order, upstreamOrder)} :
        IF \/ DefaultsErr(doc.ext)
           \/ created.err
           \/ getPluginsListErr(doc.ext)
        THEN /\ pc' = "error"
             /\ UNCHANGED <<doc, services, upstreams, result, docVars, pathIndex,
                            path, pathVars, methodIndex, opVars>>
        ELSE /\ docBaseName' = baseName
             /\ docServers' = doc.servers
             /\ docServiceDefaults' = doc.ext.sd
             /\ docUpstreamDefaults' = doc.ext.ud
             /\ docRouteDefaults' = doc.ext.rd
             /\ services' = << [created.service EXCEPT !.plugins = split.list] >>
             /\ upstreams' = IF created.upstream.set THEN <<created.upstream>> ELSE <<>>
             /\ docValidatorConfig' = split.config
             /\ docPluginList' = split.list
             /\ sortedPaths' = SortStrings(DOMAIN doc.paths)
             /\ pathIndex' = 1
             /\ pc' = "paths"
             /\ UNCHANGED <<doc, result, path, pathVars, methodIndex, opVars>>

ConvertDocument ==
    /\ pc = "document"
    /\ \E order \in RangeOrders(doc.servers),
          upstreamOrder \in RangeOrders(doc.servers) :
           ConvertDocumentWith(order, upstreamOrder)
    /\ UNCHANGED unitVars

\* "Handle OAS Path level": the top of one iteration of the path loop, up
\* to the sorted array of its operations
ConvertPathWith(order, upstreamOrder) ==
    LET p          == sortedPaths[pathIndex]
        item       == doc.paths[p]
        baseName   == docBaseName \o <<"_">> \o Slugify(NameOr(item.ext, p))
        sd         == IF item.ext.sd.set THEN item.ext.sd ELSE docServiceDefaults
        ud         == IF item.ext.ud.set THEN item.ext.ud ELSE docUpstreamDefaults
        rd         == IF item.ext.rd.set THEN item.ext.rd ELSE docRouteDefaults
        servers    == IF Len(item.servers) = 0 THEN docServers ELSE item.servers
        newUpstream == NeedNewUpstream(item.ext, item.servers)
        newService == NeedNewService(item.ext, item.servers)
        plugins    == getPluginsList(item.ext,
                                     IF newService THEN docPluginList ELSE <<>>,
                                     baseName)
        split      == getValidatorPlugin(plugins, docValidatorConfig)
    IN  \E created \in {CreateKongService(baseName, servers, sd, ud,
                                          order, upstreamOrder)} :
        LET host == NewServiceHost(created, newUpstream, services[docService].host)
        IN
        IF \/ DefaultsErr(item.ext)
           \/ newService /\ created.err
           \/ getPluginsListErr(item.ext)
        THEN /\ pc' = "error"
             /\ UNCHANGED <<doc, services, upstreams, result, docVars, pathIndex,
                            path, pathVars, methodIndex, opVars>>
        ELSE /\ path' = p
             /\ pathitem' = item
             /\ pathBaseName' = baseName
             /\ pathServiceDefaults' = sd
             /\ pathUpstreamDefaults' = ud
             /\ pathRouteDefaults' = rd
             /\ pathServers' = servers
             /\ newPathService' = newService
             /\ pathPluginList' = split.list
             /\ pathValidatorConfig' = split.config
             /\ IF newService
                THEN /\ services' = Append(services,
                                      [created.service EXCEPT !.plugins = split.list,
                                                              !.host = host])
                     /\ pathService' = Len(services) + 1
                     /\ upstreams' = IF KeepUpstream(created, newUpstream)
                                     THEN Append(upstreams, created.upstream)
                                     ELSE upstreams
                ELSE /\ pathService' = docService
                     /\ UNCHANGED <<services, upstreams>>
             /\ sortedMethods' = SortStrings(DOMAIN item.ops)
             /\ methodIndex' = 1
             /\ IF DOMAIN item.ops = {}
                THEN pc' = "paths" /\ pathIndex' = pathIndex + 1
                ELSE pc' = "operations" /\ pathIndex' = pathIndex
             /\ UNCHANGED <<doc, result, docVars, opVars>>

\* the servers block in effect for the path the loop is at
ServersOfPath ==
    IF Len(doc.paths[sortedPaths[pathIndex]].servers) = 0 THEN docServers
    ELSE doc.paths[sortedPaths[pathIndex]].servers

ConvertPath ==
    /\ pc = "paths"
    /\ pathIndex <= Len(sortedPaths)
    /\ \E order \in RangeOrders(ServersOfPath),
          upstreamOrder \in RangeOrders(ServersOfPath) :
           ConvertPathWith(order, upstreamOrder)
    /\ UNCHANGED unitVars

\* a variant of OperationBaseName in which the operationId comes first
OperationBaseNameById(operation, method) ==
    IF operation.operationId # <<>>
    THEN docBaseName \o <<"_">> \o Slugify(operation.operationId)
    ELSE IF operation.ext.name # <<>>
         THEN pathBaseName \o <<"_">> \o Slugify(operation.ext.name)
         ELSE pathBaseName \o <<"_">> \o Slugify(method)

\* the operation's base name: x-kong-name, else the operationId, else the
\* method
OperationBaseName(operation, method) ==
    IF operation.ext.name # <<>>
    THEN pathBaseName \o <<"_">> \o Slugify(operation.ext.name)
    ELSE IF operation.operationId = <<>>
         THEN pathBaseName \o <<"_">> \o Slugify(method)
         ELSE docBaseName \o <<"_">> \o Slugify(operation.operationId)

\* "operationPluginList, _ = getPluginsList(...)": the list, nil when the
\* call failed
getPluginsListOrNil(ext, pluginsToInclude, baseName) ==
    IF getPluginsListErr(ext) THEN <<>>
    ELSE getPluginsList(ext, pluginsToInclude, baseName)

\* a variant of OperationPluginList that always builds on the path's list
OperationPluginListOnPath(operation, baseName, newOperationService) ==
    getPluginsList(operation.ext, pathPluginList, baseName)

\* a variant of OperationPluginList that builds on the list left by the
\* operation handled before
OperationPluginListOnLast(operation, baseName, newOperationService) ==
    getPluginsList(operation.ext, operationPluginList, baseName)

\* "collect operation plugins": the three cases
OperationPluginList(operation, baseName, newOperationService) ==
    IF ~newOperationService /\ ~newPathService
    THEN getPluginsList(operation.ext, pathPluginList, baseName)
    ELSE IF newOperationService
         THEN getPluginsList(operation.ext,
                  getPluginsListOrNil(pathitem.ext,
                      getPluginsListOrNil(doc.ext, <<>>, baseName),
                      baseName),
                  baseName)
         ELSE getPluginsList(operation.ext, <<>>, baseName)

\* "Handle OAS Operation level": one iteration of the operation loop.
\* bodySchema is the result of generateBodySchema.
ConvertOperationWith(bodySchema, order, upstreamOrder) ==
    LET method      == sortedMethods[methodIndex]
        operation   == pathitem.ops[method]
        baseName    == OperationBaseName(operation, method)
        sd          == IF operation.ext.sd.set THEN operation.ext.sd
                       ELSE pathServiceDefaults
        ud          == IF operation.ext.ud.set THEN operation.ext.ud
                       ELSE pathUpstreamDefaults
        rd          == IF operation.ext.rd.set THEN operation.ext.rd
                       ELSE pathRouteDefaults
        servers     == IF Len(operation.servers) = 0 THEN pathServers
                       ELSE operation.servers
        newUpstream == NeedNewUpstream(operation.ext, operation.servers)
        newService  == NeedNewService(operation.ext, operation.servers)
        operationService == IF newService THEN Len(services) + 1 ELSE pathService
        plugins     == OperationPluginList(operation, baseName, newService)
        split       == getValidatorPlugin(plugins, pathValidatorConfig)
        validator   == generateValidatorPlugin(split.config, operation, baseName,
                                               bodySchema)
        inserted    == insertPlugin(split.list, validator)
        newPath     == RewritePath(path)
        route       == [defaults   |-> rd,
                        plugins    |-> inserted.list,
                        paths      |-> RoutePaths(newPath),
                        id         |-> UUIDv5(baseName \o <<".", "r", "o", "u", "t", "e">>),
                        name       |-> baseName,
                        methods    |-> <<method>>,
                        strip_path |-> FALSE]
        last        == methodIndex = Len(sortedMethods)
    IN  \E created \in {CreateKongService(baseName, servers, sd, ud,
                                          order, upstreamOrder)} :
        LET host      == NewServiceHost(created, newUpstream,
                                        services[pathService].host)
            services1 == IF newService
                         THEN Append(services, [created.service EXCEPT !.host = host])
                         ELSE services
        IN
        IF \/ DefaultsErr(operation.ext)
           \/ newService /\ created.err
           \/ getPluginsListErr(operation.ext)
        THEN /\ pc' = "error"
             /\ UNCHANGED <<doc, services, upstreams, result, docVars, pathIndex,
                            path, pathVars, methodIndex, opVars>>
        ELSE IF inserted.panic
        THEN \* the slice expression list[:i-1] panics; the run ends here
             /\ pc' = "panic"
             /\ operationBaseName' = baseName
             /\ operationPluginList' = plugins
             /\ operationValidatorConfig' = split.config
             /\ validatorPlugin' = validator
             /\ UNCHANGED <<doc, services, upstreams, result, docVars, pathIndex,
                            path, pathVars, methodIndex>>
        ELSE /\ services' = [services1 EXCEPT ![operationService].routes =
                                 Append(@, route)]
             /\ upstreams' = IF newService /\ KeepUpstream(created, newUpstream)
                             THEN Append(upstreams, created.upstream)
                             ELSE upstreams
             /\ path' = newPath
             /\ methodIndex' = methodIndex + 1
             /\ pathIndex' = IF last THEN pathIndex + 1 ELSE pathIndex
             /\ pc' = IF last THEN "paths" ELSE "operations"
             /\ operationBaseName' = baseName
             /\ operationPluginList' = plugins
             /\ operationValidatorConfig' = split.config
             /\ validatorPlugin' = validator
             /\ UNCHANGED <<doc, result, docVars, pathVars>>

\* "export array with services and upstreams to the final object"
Return ==
    /\ pc = "paths"
    /\ pathIndex > Len(sortedPaths)
    /\ result' = [ok |-> TRUE, services |-> services, upstreams |-> upstreams]
    /\ pc' = "done"
    /\ UNCHANGED <<doc, services, upstreams, docVars, pathIndex, path, pathVars,
                   methodIndex, opVars, unitVars>>

CurrentOperation == pathitem.ops[sortedMethods[methodIndex]]

\* the servers block in effect for the operation the loop is at
ServersOfOperation ==
    IF Len(CurrentOperation.servers) = 0 THEN pathServers
    ELSE CurrentOperation.servers

ConvertOperation ==
    /\ pc = "operations"
    /\ methodIndex <= Len(sortedMethods)
    /\ \E bodySchema \in BodySchemaChoices(CurrentOperation),
          order \in RangeOrders(ServersOfOperation),
          upstreamOrder \in RangeOrders(ServersOfOperation) :
           ConvertOperationWith(bodySchema, order, upstreamOrder)
    /\ UNCHANGED unitVars

Next ==
    \/ ConvertDocument
    \/ ConvertPath
    \/ ConvertOperation
    \/ Return

Spec == Init /\ [][Next]_vars

(***************************************************************************)
(* Functions called on their own: one call of parseServerUris, of          *)
(* setServerDefaults or of CreateKongService of package kong, or of        *)
(* insertPlugin, on given arguments                                        *)
(***************************************************************************)

\* the URIs setServerDefaults is given: with and without a scheme, a
\* hostname and a port, and with a Host that ends in ":", is ":" or has a
\* port with a leading zero
UnitUrls ==
    { Url(scheme, hostname, port, <<"/", "v", "1">>) :
        scheme \in Schemes \cup {<<>>},
        hostname \in {<<>>, ExampleCom},
        port \in {NoPort, 80, 443, 8080} }
      \cup { URL(scheme, host, <<"/", "v", "1">>) :
                 scheme \in {<<>>, <<"h", "t", "t", "p">>},
                 host \in {ExampleCom \o <<":">>, <<":">>} }
      \cup { URL(<<>>, ExampleCom \o <<":", "0", "8", "0">>, <<"/", "v", "1">>) }

MaxTargets == 2
RECURSIVE TargetsUpTo(_)
TargetsUpTo(n) ==
    IF n = 0 THEN {<<>>}
    ELSE LET shorter == TargetsUpTo(n - 1)
         IN  shorter \cup { Append(t, u) : t \in shorter, u \in UnitUrls }

\* a plugin of a given name, and the lists sorted by plugin name
UnitPlugin(n) ==
    [NoPlugin EXCEPT !.name = n, !.id = createPluginId(<<"b", "a", "s", "e">>, n)]

UnitLists ==
    { [i \in 1..Len(SortNames(N)) |-> UnitPlugin(SortNames(N)[i])] :
        N \in SUBSET PluginNames }

\* the arguments of a call: a servers block with its defaults, URIs with a
\* default scheme, or a sorted plugin list with a plugin or nil
IsUnitIn(u) ==
    \/ \E servers \in ServerBlocks \cup VariableBlocks, D \in ServerDecls :
           u = [NoUnitIn EXCEPT !.servers = servers,
                                !.serviceDefaults = ExtOf(DocScope, D).sd,
                                !.upstreamDefaults = ExtOf(DocScope, D).ud]
    \/ \E targets \in TargetsUpTo(MaxTargets), schemeDefault \in Schemes :
           u = [NoUnitIn EXCEPT !.targets = targets,
                                !.schemeDefault = schemeDefault]
    \/ \E list \in UnitLists, plugin \in {NoPlugin} \cup { UnitPlugin(n) : n \in PluginNames } :
           u = [NoUnitIn EXCEPT !.list = list, !.plugin = plugin]

FactoryInit ==
    /\ doc = BuildDoc(ChainStructure, {})
    /\ pc = "unit"
    /\ ConvertInit
    /\ IsUnitIn(unitIn)
    /\ unitOut = NoUnitOut

convertVars == <<doc, pc, services, upstreams, result, docVars, pathIndex, path,
                 pathVars, methodIndex, opVars>>

UnitParseServerUris ==
    /\ unitOut.op = ""
    /\ \E order \in RangeOrders(unitIn.servers) :
           unitOut' = [unitOut EXCEPT !.op = "parseServerUris",
                          !.parsed = parseServerUris(unitIn.servers, order)]
    /\ UNCHANGED <<convertVars, unitIn>>

UnitSetServerDefaults ==
    /\ unitOut.op = ""
    /\ unitOut' = [unitOut EXCEPT !.op = "setServerDefaults",
                      !.defaulted = setServerDefaults(unitIn.targets,
                                                      unitIn.schemeDefault)]
    /\ UNCHANGED <<convertVars, unitIn>>

UnitCreateKongService ==
    /\ unitOut.op = ""
    /\ \E order \in RangeOrders(unitIn.servers),
          upstreamOrder \in RangeOrders(unitIn.servers) :
           unitOut' = [unitOut EXCEPT !.op = "CreateKongService",
                          !.created = CreateKongService(<<"b", "a", "s", "e">>, unitIn.servers,
                                          unitIn.serviceDefaults,
                                          unitIn.upstreamDefaults,
                                          order, upstreamOrder)]
    /\ UNCHANGED <<convertVars, unitIn>>

UnitInsertPlugin ==
    /\ unitOut.op = ""
    /\ unitOut' = [unitOut EXCEPT !.op = "insertPlugin",
                      !.inserted = insertPlugin(unitIn.list, unitIn.plugin)]
    /\ UNCHANGED <<convertVars, unitIn>>

FactoryNext ==
    \/ UnitParseServerUris
    \/ UnitSetServerDefaults
    \/ UnitCreateKongService
    \/ UnitInsertPlugin

FactorySpec == FactoryInit /\ [][FactoryNext]_vars

(***************************************************************************)
(* extractSchema called on its own: the walk of dereferenceSchema, one     *)
(* call of it a step; pending holds the calls still to be made, the next   *)
(* one first                                                               *)
(***************************************************************************)

SchemaSlots == SetToSeq(SchemaEdgeSlots)
MaxSchemaEdges == 3
SchemaPicks == Picks(Len(SchemaSlots), MaxSchemaEdges)

\* the argument of extractSchema: nil, a schema written in line or a $ref
IsSchemaIn(u) ==
    \E pick \in SchemaPicks,
       root \in {SchemaNil, SchemaRefTo(RootSchema), SchemaRefTo(SchemaA)} :
        /\ EdgesFit(DeclsAt(SchemaSlots, pick))
        /\ u = [NoUnitIn EXCEPT !.schemas = SchemaTable(DeclsAt(SchemaSlots, pick)),
                                !.root = root]

SchemaInit ==
    /\ doc = BuildDoc(ChainStructure, {})
    /\ pc = "unit"
    /\ ConvertInit
    /\ IsSchemaIn(unitIn)
    /\ unitOut = NoUnitOut

\* "if s == nil || s.Value == nil { return "" }", else the walk starts
ExtractSchemaCall ==
    /\ unitOut.op = ""
    /\ unitOut' = IF unitIn.root = SchemaNil
                  THEN [unitOut EXCEPT !.op = "extractSchema"]
                  ELSE [unitOut EXCEPT !.op = "dereferenceSchema",
                                       !.pending = <<unitIn.root>>]
    /\ UNCHANGED <<convertVars, unitIn>>

\* a variant of Subschemas that leaves out items
SubschemasButItems(s, order) ==
    s.allOf \o s.anyOf \o s.oneOf
        \o [i \in 1..Len(order) |-> s.properties[order[i]]]
        \o <<s.not, s.additionalProperties>>

\* the subschemas dereferenceSchema calls itself on, in the order of the
\* calls; order is the order the range over s.Properties takes
Subschemas(s, order) ==
    s.allOf \o s.anyOf \o s.oneOf
        \o [i \in 1..Len(order) |-> s.properties[order[i]]]
        \o <<s.not, s.additionalProperties, s.items>>

\* one call of dereferenceSchema: it returns for nil and for a $ref seen
\* before, else notes the $ref and calls itself on the subschemas
DereferenceSchema ==
    /\ unitOut.op = "dereferenceSchema"
    /\ unitOut.pending # <<>>
    /\ LET sr   == Head(unitOut.pending)
           rest == Tail(unitOut.pending)
       IN  IF sr = SchemaNil \/ (sr.ref # "" /\ sr.ref \in DOMAIN unitOut.seenBefore)
           THEN unitOut' = [unitOut EXCEPT !.pending = rest]
           ELSE \E order \in OrdersOf(DOMAIN unitIn.schemas[sr.value].properties) :
                    unitOut' =
                        [unitOut EXCEPT
                            !.pending = Subschemas(unitIn.schemas[sr.value], order)
                                            \o rest,
                            !.seenBefore = IF sr.ref # ""
                                           THEN (sr.ref :> sr.value) @@ @
                                           ELSE @]
    /\ UNCHANGED <<convertVars, unitIn>>

\* strings.Replace(key, "#/components/schemas/", "", 1)
DefinitionKey(ref) ==
    CASE ref = "#/components/schemas/A" -> "A"
      [] ref = "#/components/schemas/B" -> "B"
      [] OTHER                          -> ref

\* the walk is over: the schemas seen are stored under their new keys
ExtractSchemaReturn ==
    /\ unitOut.op = "dereferenceSchema"
    /\ unitOut.pending = <<>>
    /\ unitOut' =
          [unitOut EXCEPT
              !.op = "extractSchema",
              !.definitions =
                  [k \in { DefinitionKey(r) : r \in DOMAIN unitOut.seenBefore } |->
                      unitOut.seenBefore[CHOOSE r \in DOMAIN unitOut.seenBefore :
                                             DefinitionKey(r) = k]]]
    /\ UNCHANGED <<convertVars, unitIn>>

SchemaNext ==
    \/ ExtractSchemaCall
    \/ DereferenceSchema
    \/ ExtractSchemaReturn

\* extractSchema runs on: a call that can take a step takes it
SchemaSpec == SchemaInit /\ [][SchemaNext]_vars /\ WF_vars(SchemaNext)

(***************************************************************************)
(* The document as the specification reads it                              *)
(***************************************************************************)

OperationsOf(d) ==
    UNION { { OpScope(p, m) : m \in DOMAIN d.paths[p].ops } : p \in DOMAIN d.paths }

PathsOf(d) == { PathScope(p) : p \in DOMAIN d.paths }

ScopesOf(d) == {DocScope} \cup PathsOf(d) \cup OperationsOf(d)

ParentOf(S) == IF S.method # <<>> THEN PathScope(S.path) ELSE DocScope

\* what a scope declares itself
LocalExt(d, S) ==
    IF S = DocScope THEN d.ext
    ELSE IF S.method = <<>> THEN d.paths[S.path].ext
    ELSE d.paths[S.path].ops[S.method].ext

LocalServers(d, S) ==
    IF S = DocScope THEN d.servers
    ELSE IF S.method = <<>> THEN d.paths[S.path].servers
    ELSE d.paths[S.path].ops[S.method].servers

\* the effective servers block and upstream defaults: the scope's own, else
\* the nearest ancestor's
RECURSIVE EffectiveServers(_, _)
EffectiveServers(d, S) ==
    IF S = DocScope \/ LocalServers(d, S) # <<>> THEN LocalServers(d, S)
    ELSE EffectiveServers(d, ParentOf(S))

RECURSIVE EffectiveUpstreamDefaults(_, _)
EffectiveUpstreamDefaults(d, S) ==
    IF S = DocScope \/ LocalExt(d, S).ud.set THEN LocalExt(d, S).ud
    ELSE EffectiveUpstreamDefaults(d, ParentOf(S))

\* the base name Convert gives a scope: an x-kong-name that is the empty
\* string names nothing, as getKongName returns "" for it
RECURSIVE BaseNameOf(_, _)
BaseNameOf(d, S) ==
    IF S = DocScope THEN Slugify(NameOr(d.ext, d.title))
    ELSE IF S.method = <<>>
    THEN BaseNameOf(d, DocScope) \o <<"_">> \o Slugify(NameOr(LocalExt(d, S), S.path))
    ELSE LET operation == d.paths[S.path].ops[S.method]
         IN  IF operation.ext.name # <<>>
             THEN BaseNameOf(d, ParentOf(S)) \o <<"_">> \o Slugify(operation.ext.name)
             ELSE IF operation.operationId # <<>>
             THEN BaseNameOf(d, DocScope) \o <<"_">> \o Slugify(operation.operationId)
             ELSE BaseNameOf(d, ParentOf(S)) \o <<"_">> \o Slugify(S.method)

\* a path or operation scope declares service defaults, upstream defaults
\* or a non-empty servers block of its own
DeclaresService(d, S) ==
    \/ LocalExt(d, S).sd.set
    \/ LocalExt(d, S).ud.set
    \/ LocalServers(d, S) # <<>>

\* the scope whose service takes the route of an operation
RECURSIVE ServiceScopeOf(_, _)
ServiceScopeOf(d, S) ==
    IF S = DocScope \/ DeclaresService(d, S) THEN S
    ELSE ServiceScopeOf(d, ParentOf(S))

\* the positions <<i, j>> of the routes in a list of services
RouteSlots(svcs) ==
    UNION { { <<i, j>> : j \in 1..Len(svcs[i].routes) } : i \in 1..Len(svcs) }

\* the names in a plugin list strictly ascend
Ascending(list) ==
    \A k \in 1..(Len(list) - 1) : NameLess(list[k].name, list[k + 1].name)

UpstreamNames(ups) == { ups[k].name : k \in 1..Len(ups) }

(***************************************************************************)
(* Properties of the conversion                                            *)
(***************************************************************************)

\* the routes of the output for one operation: its method, and its path
\* rewritten from the OAS path
RoutesFor(svcs, S) ==
    { s \in RouteSlots(svcs) :
        /\ svcs[s[1]].routes[s[2]].methods = <<S.method>>
        /\ svcs[s[1]].routes[s[2]].paths = RoutePaths(RewritePath(S.path)) }

\* C1: a successful conversion emits exactly one route per operation, with
\* that operation's method and rewritten path, in the routes of the service
\* of the nearest scope that created one (operation, else path, else
\* document); there are as many routes as operations.
C1_OneRoutePerOperation ==
    result.ok =>
        /\ Cardinality(RouteSlots(result.services)) = Cardinality(OperationsOf(doc))
        /\ \A S \in OperationsOf(doc) :
              /\ Cardinality(RoutesFor(result.services, S)) = 1
              /\ \A s \in RoutesFor(result.services, S) :
                    result.services[s[1]].name = BaseNameOf(doc, ServiceScopeOf(doc, S))

\* C2: every plugin list of the output, of a service or of a route, is
\* strictly ascending by plugin name (so without duplicates), also where a
\* synthesized request-validator was put back into the list.
C2_PluginListsAscending ==
    result.ok =>
        /\ \A i \in 1..Len(result.services) : Ascending(result.services[i].plugins)
        /\ \A s \in RouteSlots(result.services) :
              Ascending(result.services[s[1]].routes[s[2]].plugins)

\* C3 as stated: the output has an upstream named <base name of S>.upstream
\* iff S declares upstream defaults itself or its effective servers block
\* has two or more entries.
C3_UpstreamIffDeclaredOrTwoServers ==
    result.ok =>
        \A S \in ScopesOf(doc) :
            UpstreamName(BaseNameOf(doc, S)) \in UpstreamNames(result.upstreams)
              <=> \/ LocalExt(doc, S).ud.set
                  \/ Len(EffectiveServers(doc, S)) >= 2

\* a run where the statement fails: a path without declarations of its own
\* under a document with two servers gets no upstream
C3_PathUnderTwoServers ==
    /\ result.ok
    /\ \E S \in PathsOf(doc) :
          /\ ~DeclaresService(doc, S)
          /\ Len(EffectiveServers(doc, S)) >= 2

\* a scope emits an upstream: it has effective upstream defaults or two or
\* more effective servers, and it is the document or declares upstream
\* defaults or a non-empty servers block itself
EmitsUpstream(d, S) ==
    /\ \/ EffectiveUpstreamDefaults(d, S).set
       \/ Len(EffectiveServers(d, S)) >= 2
    /\ \/ S = DocScope
       \/ LocalExt(d, S).ud.set
       \/ LocalServers(d, S) # <<>>

\* C3, amended: the upstreams of the output are those named
\* <base name of S>.upstream of the scopes S that emit one, one each.
C3_UpstreamIffNeededAndLocal ==
    result.ok =>
        /\ UpstreamNames(result.upstreams) =
              { UpstreamName(BaseNameOf(doc, S)) :
                  S \in { T \in ScopesOf(doc) : EmitsUpstream(doc, T) } }
        /\ Len(result.upstreams) =
              Cardinality({ S \in ScopesOf(doc) : EmitsUpstream(doc, S) })

\* reached: a scope with one server of its own and inherited upstream
\* defaults has its upstream in the output, and a scope with service
\* defaults alone under two inherited servers has none
C3_Witness ==
    /\ result.ok
    /\ \E S \in ScopesOf(doc) \ {DocScope} :
          /\ ~LocalExt(doc, S).ud.set
          /\ Len(EffectiveServers(doc, S)) = 1
          /\ UpstreamName(BaseNameOf(doc, S)) \in UpstreamNames(result.upstreams)

C3_WitnessReuse ==
    /\ result.ok
    /\ \E S \in ScopesOf(doc) \ {DocScope} :
          /\ DeclaresService(doc, S)
          /\ Len(EffectiveServers(doc, S)) >= 2
          /\ UpstreamName(BaseNameOf(doc, S)) \notin UpstreamNames(result.upstreams)

\* the hostname of the first server URI of a servers block, localhost when
\* the URI names no host
FirstHostname(servers) ==
    IF servers = <<>> THEN <<"l", "o", "c", "a", "l", "h", "o", "s", "t">>
    ELSE LET order == CHOOSE o \in OrdersOf(DOMAIN servers[1].variables) : TRUE
             first == ParseRequestURI(RenderVariables(servers[1].url,
                                                      servers[1].variables,
                                                      order)).url
         IN  IF HostIsEmpty(first) THEN <<"l", "o", "c", "a", "l", "h", "o", "s", "t">> ELSE Hostname(first)

\* C4: the host of every service of the output is the hostname of the
\* first server of the effective servers block of its scope, or the name
\* of an upstream that is in the output.
C4_ServiceHost ==
    result.ok =>
        \A i \in 1..Len(result.services) :
            \/ result.services[i].host \in UpstreamNames(result.upstreams)
            \/ \E S \in ScopesOf(doc) :
                  /\ result.services[i].name = BaseNameOf(doc, S)
                  /\ result.services[i].host = FirstHostname(EffectiveServers(doc, S))

\* reached: a service of a path or operation that reuses the upstream of
\* the document, and one that points at the host of its own server
\* C5: a path or operation scope gets a service of its own iff it declares
\* service defaults, upstream defaults or a non-empty servers block itself
\* (route defaults alone never do); so the output has one service for the
\* document and one for each such scope, and none besides; the route of an
\* operation is in the service of the nearest scope that has one.
C5_ServicePerDeclaringScope ==
    result.ok =>
        /\ Len(result.services) =
              1 + Cardinality({ S \in PathsOf(doc) \cup OperationsOf(doc) :
                                   DeclaresService(doc, S) })
        /\ \A S \in PathsOf(doc) \cup OperationsOf(doc) :
              DeclaresService(doc, S)
                => \E i \in 2..Len(result.services) :
                       result.services[i].name = BaseNameOf(doc, S)
        /\ \A S \in OperationsOf(doc) :
              \E s \in RouteSlots(result.services) :
                  /\ result.services[s[1]].routes[s[2]].name = BaseNameOf(doc, S)
                  /\ result.services[s[1]].name =
                        BaseNameOf(doc, ServiceScopeOf(doc, S))

\* reached: a path with route defaults alone, and an operation with a
\* service of its own
C5_Witness ==
    /\ result.ok
    /\ \E S \in PathsOf(doc) :
          LocalExt(doc, S).rd.set /\ ~DeclaresService(doc, S)
    /\ \E S \in OperationsOf(doc) :
          /\ DeclaresService(doc, S)
          /\ \E i \in 2..Len(result.services) :
                  /\ result.services[i].name = BaseNameOf(doc, S)
                  /\ Len(result.services[i].routes) = 1

\* the operation handled last, once one has been
OperationHandled ==
    /\ operationBaseName # <<>>
    /\ pc = "operations" => methodIndex > 1

LastOperation ==
    IF pc = "panic"
    THEN OpScope(sortedPaths[pathIndex], sortedMethods[methodIndex])
    ELSE IF pc = "operations"
    THEN OpScope(sortedPaths[pathIndex], sortedMethods[methodIndex - 1])
    ELSE OpScope(sortedPaths[pathIndex - 1], sortedMethods[Len(sortedMethods)])

\* a plugin list without its ids
Entries(list) ==
    [k \in 1..Len(list) |->
        [name |-> list[k].name, body |-> list[k].body, config |-> list[k].config]]

\* the plugin extensions of a sequence of scopes, outermost first, merged
\* by name with the more specific scope overriding, sorted by name
MergedPlugins(d, scopes) ==
    LET names  == UNION { DOMAIN LocalExt(d, scopes[i]).plugins :
                             i \in 1..Len(scopes) }
        sorted == SortNames(names)
    IN  [k \in 1..Len(sorted) |->
            LET declaring == { i \in 1..Len(scopes) :
                                  sorted[k] \in DOMAIN LocalExt(d, scopes[i]).plugins }
                i == CHOOSE i \in declaring : \A j \in declaring : j <= i
            IN  [name   |-> sorted[k],
                 body   |-> scopes[i],
                 config |-> LocalExt(d, scopes[i]).plugins[sorted[k]]]]

\* a list without the request-validator entries of one scope
RECURSIVE WithoutValidatorOf(_, _)
WithoutValidatorOf(list, S) ==
    IF list = <<>> THEN <<>>
    ELSE IF Head(list).name = ValidatorName /\ Head(list).body = S
         THEN WithoutValidatorOf(Tail(list), S)
         ELSE <<Head(list)>> \o WithoutValidatorOf(Tail(list), S)

\* C6 as stated: the plugin list collected for an operation's route is
\* (a) the path's extensions merged with the operation's when neither scope
\* created a service, (b) the document's, the path's and the operation's
\* merged when the operation created one, (c) the operation's alone when
\* only the path created one, whose service then carries the document's
\* merged with the path's.
C6_RoutePluginList ==
    OperationHandled =>
        LET S == LastOperation
            P == ParentOf(S)
        IN  IF DeclaresService(doc, S)
            THEN Entries(operationPluginList) = MergedPlugins(doc, <<DocScope, P, S>>)
            ELSE IF DeclaresService(doc, P)
            THEN /\ Entries(operationPluginList) = MergedPlugins(doc, <<S>>)
                 /\ Entries(services[pathService].plugins) =
                        MergedPlugins(doc, <<DocScope, P>>)
            ELSE Entries(operationPluginList) = MergedPlugins(doc, <<P, S>>)

\* C6, amended: as above, but in (a) without a request-validator extension
\* of the path, and in (c) with the path's service carrying no
\* request-validator.
C6_RoutePluginListButValidator ==
    OperationHandled =>
        LET S == LastOperation
            P == ParentOf(S)
        IN  IF DeclaresService(doc, S)
            THEN Entries(operationPluginList) = MergedPlugins(doc, <<DocScope, P, S>>)
            ELSE IF DeclaresService(doc, P)
            THEN /\ Entries(operationPluginList) = MergedPlugins(doc, <<S>>)
                 /\ Entries(services[pathService].plugins) =
                        WithoutValidatorOf(
                            WithoutValidatorOf(MergedPlugins(doc, <<DocScope, P>>),
                                               DocScope), P)
            ELSE Entries(operationPluginList) =
                     WithoutValidatorOf(MergedPlugins(doc, <<P, S>>), P)

\* reached: case (a) with a request-validator and another plugin declared
\* by the path; case (b) and case (c) with plugins on the levels above
C6_Witness ==
    /\ OperationHandled
    /\ ~DeclaresService(doc, LastOperation)
    /\ ~DeclaresService(doc, ParentOf(LastOperation))
    /\ ValidatorName \in DOMAIN LocalExt(doc, ParentOf(LastOperation)).plugins
    /\ operationPluginList # <<>>

C6_WitnessOperationService ==
    /\ OperationHandled
    /\ DeclaresService(doc, LastOperation)
    /\ \E k \in 1..Len(operationPluginList) : operationPluginList[k].body = DocScope
    /\ \E k \in 1..Len(operationPluginList) :
          operationPluginList[k].body = ParentOf(LastOperation)

C6_WitnessPathService ==
    /\ OperationHandled
    /\ ~DeclaresService(doc, LastOperation)
    /\ DeclaresService(doc, ParentOf(LastOperation))
    /\ operationPluginList # <<>>
    /\ \E k \in 1..Len(services[pathService].plugins) :
          services[pathService].plugins[k].body = DocScope

\* every plugin of a list has the id derived from a base name and its name
IdsFrom(list, baseName) ==
    \A k \in 1..Len(list) :
        list[k].id = createPluginId(baseName, list[k].name)

\* C7: every plugin of every plugin list of the output has the id
\* UUIDv5(B.plugin.<name>), B being the base name of the scope that owns the
\* list: the service's for a service, the operation's for a route; this
\* covers inherited plugins and the synthesized request-validator.
C7_PluginIds ==
    result.ok =>
        /\ \A i \in 1..Len(result.services) :
              IdsFrom(result.services[i].plugins, result.services[i].name)
        /\ \A s \in RouteSlots(result.services) :
              IdsFrom(result.services[s[1]].routes[s[2]].plugins,
                      result.services[s[1]].routes[s[2]].name)

\* reached: a route with an inherited plugin and a synthesized
\* request-validator
C7_Witness ==
    /\ result.ok
    /\ \E s \in RouteSlots(result.services) :
          LET list == result.services[s[1]].routes[s[2]].plugins
          IN  /\ \E k \in 1..Len(list) :
                    list[k].name # ValidatorName /\ list[k].body.method = <<>>
              /\ \E k \in 1..Len(list) :
                    /\ list[k].name = ValidatorName
                    /\ list[k].config.parameter_schema # <<>>

\* C8: Convert is deterministic: a step of the conversion has one outcome,
\* whichever of several JSON content types the request body is read from,
\* so the output is a function of the input document.
C8_Deterministic ==
    [][ConvertOperation =>
          \A bodySchema \in BodySchemaChoices(CurrentOperation),
             order \in RangeOrders(ServersOfOperation),
             upstreamOrder \in RangeOrders(ServersOfOperation) :
              ConvertOperationWith(bodySchema, order, upstreamOrder)]_vars

\* the placeholders of a path replaced in one pass from left to right
RECURSIVE ReplacePlaceholders(_)
ReplacePlaceholders(p) ==
    IF p = <<>> THEN <<>>
    ELSE IF Head(p) # "{" THEN <<Head(p)>> \o ReplacePlaceholders(Tail(p))
    ELSE LET close == IndexOf(p, <<"}">>)
         IN  IF close = 0 THEN p
             ELSE IF close = 2 THEN <<"{">> \o ReplacePlaceholders(Tail(p))
             ELSE <<"(", "?", "<">> \o SubSeq(p, 2, close - 1) \o <<">", "[", "^", "#", "?", "/", "]", "+", ")">>
                      \o ReplacePlaceholders(SubSeq(p, close + 1, Len(p)))

\* C9: the paths of the route of an operation are the one-element list
\* "~" + P + "$", P being the operation's OAS path with each placeholder
\* {var} replaced once, left to right, by (?<var>[^#?/]+) with var as
\* written; the path of the service is not put before it.
C9_RoutePaths ==
    result.ok =>
        \A S \in OperationsOf(doc) :
            \E s \in RouteSlots(result.services) :
                /\ result.services[s[1]].routes[s[2]].methods = <<S.method>>
                /\ result.services[s[1]].routes[s[2]].paths =
                      << <<"~">> \o ReplacePlaceholders(S.path) \o <<"$">> >>

\* [A-Za-z_] and [A-Za-z0-9_]
IsNameStart(c) ==
    \/ Code(c) >= 65 /\ Code(c) <= 90
    \/ Code(c) >= 97 /\ Code(c) <= 122
    \/ c = "_"

IsNameChar(c) == IsNameStart(c) \/ (Code(c) >= 48 /\ Code(c) <= 57)

\* the names of the capture groups of a route path: what stands between a
\* "(?<" and the next ">[^#?/]+)"
CaptureOpen == <<"(", "?", "<">>
CaptureClose == <<">", "[", "^", "#", "?", "/", "]", "+", ")">>

StartsAt(p, i, sub) ==
    i + Len(sub) - 1 <= Len(p) /\ SubSeq(p, i, i + Len(sub) - 1) = sub

GroupNamesOf(p) ==
    { SubSeq(p, ij[1] + Len(CaptureOpen), ij[2] - 1) :
        ij \in { ij \in (1..Len(p)) \X (1..Len(p)) :
                   /\ ij[1] + Len(CaptureOpen) <= ij[2]
                   /\ StartsAt(p, ij[1], CaptureOpen)
                   /\ StartsAt(p, ij[2], CaptureClose)
                   /\ \A k \in (ij[1] + Len(CaptureOpen))..(ij[2] - 1) :
                          ~StartsAt(p, k, CaptureClose) } }

IsGroupName(n) ==
    /\ n # <<>>
    /\ IsNameStart(n[1])
    /\ \A k \in 1..Len(n) : IsNameChar(n[k])

\* C10: the name of every capture group written into a route path is a
\* valid capture-group name: a placeholder name that is not one (as in
\* {-to-do}) is sanitized, not copied.
C10_CaptureNamesValid ==
    result.ok =>
        \A s \in RouteSlots(result.services) :
            \A n \in GroupNamesOf(result.services[s[1]].routes[s[2]].paths[1]) :
                IsGroupName(n)

\* the routes of the output named after an operation
RoutesNamed(svcs, name) ==
    { s \in RouteSlots(svcs) : svcs[s[1]].routes[s[2]].name = name }

\* C11: the path rewriter returns a path without placeholders, and a path
\* it has rewritten before, unchanged; so the routes of the methods of one
\* OAS path all carry the same paths, however many methods there are.
C11_RewriterIdempotent ==
    /\ (pc = "operations" /\ FindAllVars(sortedPaths[pathIndex]) = <<>>)
          => path = sortedPaths[pathIndex]
    /\ (pc = "operations" /\ methodIndex > 1) => RewritePath(path) = path
    /\ result.ok =>
          \A S \in OperationsOf(doc), T \in OperationsOf(doc) :
              S.path = T.path =>
                  \A s \in RoutesNamed(result.services, BaseNameOf(doc, S)),
                     t \in RoutesNamed(result.services, BaseNameOf(doc, T)) :
                      result.services[s[1]].routes[s[2]].paths =
                          result.services[t[1]].routes[t[2]].paths

\* the base names as composed from slugs: of the document, of a path, and
\* of an operation by its three rules, where a scope has an x-kong-name
\* when it has one that is not the empty string
DocBase(d) == Slugify(IF d.ext.name # <<>> THEN d.ext.name ELSE d.title)

PathBase(d, p) ==
    DocBase(d) \o <<"_">>
       \o Slugify(IF d.paths[p].ext.name # <<>> THEN d.paths[p].ext.name ELSE p)

OperationBase(d, S) ==
    LET operation == d.paths[S.path].ops[S.method]
    IN  IF operation.ext.name # <<>>
        THEN PathBase(d, S.path) \o <<"_">> \o Slugify(operation.ext.name)
        ELSE IF operation.operationId # <<>>
        THEN DocBase(d) \o <<"_">> \o Slugify(operation.operationId)
        ELSE PathBase(d, S.path) \o <<"_">> \o Slugify(S.method)

\* the same with "has an x-kong-name" read as "the key x-kong-name is
\* present", whatever its value
PathBaseIfPresent(d, p) ==
    DocBase(d) \o <<"_">>
       \o Slugify(IF d.paths[p].ext.named THEN d.paths[p].ext.name ELSE p)

OperationBaseIfPresent(d, S) ==
    LET operation == d.paths[S.path].ops[S.method]
    IN  IF operation.ext.named
        THEN PathBaseIfPresent(d, S.path) \o <<"_">> \o Slugify(operation.ext.name)
        ELSE IF operation.operationId # <<>>
        THEN DocBase(d) \o <<"_">> \o Slugify(operation.operationId)
        ELSE PathBaseIfPresent(d, S.path) \o <<"_">> \o Slugify(S.method)

\* the route of operation S in the output has the name base and the id
\* made from it
RouteHasBase(S, base) ==
    \E s \in RouteSlots(result.services) :
        LET route == result.services[s[1]].routes[s[2]]
        IN  /\ route.methods = <<S.method>>
            /\ route.name = base
            /\ route.id = UUIDv5(base \o <<".", "r", "o", "u", "t", "e">>)

\* C12: the base name of an operation, which names its route and feeds the
\* route's id, is pathBase_slug(x-kong-name) when the operation has an
\* x-kong-name, else docBase_slug(operationId) when it has an operationId,
\* else pathBase_slug(method); pathBase is docBase_slug(the path's
\* x-kong-name if present, else the path). As stated: an x-kong-name that is
\* present counts, the empty string included.
C12_OperationBaseName ==
    /\ OperationHandled =>
          operationBaseName = OperationBaseIfPresent(doc, LastOperation)
    /\ result.ok =>
          \A S \in OperationsOf(doc) : RouteHasBase(S, OperationBaseIfPresent(doc, S))

\* C12, amended: the same for an x-kong-name that is not the empty string;
\* an empty x-kong-name counts as none, at the operation (the operationId or
\* the method names it) and at the path (the path names it). A slug has "-"
\* for "_": the operationId a_get in the document with the title d gives the
\* route d_a-get.
C12_OperationBaseNameNonEmpty ==
    /\ OperationHandled => operationBaseName = OperationBase(doc, LastOperation)
    /\ result.ok =>
          \A S \in OperationsOf(doc) :
              /\ RouteHasBase(S, OperationBase(doc, S))
              /\ (/\ doc.paths[S.path].ops[S.method].operationId
                        = <<"a", "_", "g", "e", "t">>
                  /\ doc.paths[S.path].ops[S.method].ext.name = <<>>
                  /\ doc.ext.name = <<>>)
                 => RouteHasBase(S, <<"d", "_", "a", "-", "g", "e", "t">>)

\* reached: an operation with an x-kong-name and an operationId, under a
\* path with an x-kong-name, has its route in the output
C12_Witness ==
    /\ result.ok
    /\ \E S \in OperationsOf(doc) :
          /\ doc.paths[S.path].ops[S.method].ext.name # <<>>
          /\ doc.paths[S.path].ops[S.method].operationId # <<>>
          /\ doc.paths[S.path].ext.name # <<>>
          /\ RoutesNamed(result.services,
                 PathBase(doc, S.path) \o <<"_">>
                    \o Slugify(doc.paths[S.path].ops[S.method].ext.name)) # {}

\* a request-validator configuration is in effect for an operation: the
\* operation, its path or the document declares x-kong-plugin-request-validator
ValidatorInEffect(d, S) ==
    \E T \in {S, ParentOf(S), DocScope} : ValidatorName \in DOMAIN LocalExt(d, T).plugins

\* the request-validator plugins on the route of an operation
ValidatorsOn(svcs, d, S) ==
    UNION { { svcs[s[1]].routes[s[2]].plugins[k] :
                k \in { k \in 1..Len(svcs[s[1]].routes[s[2]].plugins) :
                          svcs[s[1]].routes[s[2]].plugins[k].name = ValidatorName } } :
            s \in RoutesNamed(svcs, OperationBase(d, S)) }

\* C13: an operation whose only parameter is a required query parameter q
\* and that has no request body (a request-validator configuration being
\* in effect) has on its route a request-validator plugin whose
\* parameter_schema is the one entry {in: query, name: q, required: true,
\* explode: false, style: form}, with version draft4.
C13_ParameterSchema ==
    result.ok =>
        \A S \in OperationsOf(doc) :
            LET operation == doc.paths[S.path].ops[S.method]
            IN  /\ operation.parameters = <<QueryParamQ>>
                /\ DOMAIN operation.content = {}
                /\ ValidatorInEffect(doc, S)
                => \E v \in ValidatorsOn(result.services, doc, S) :
                      /\ Len(v.config.parameter_schema) = 1
                      /\ v.config.parameter_schema[1].in = "query"
                      /\ v.config.parameter_schema[1].name = "q"
                      /\ v.config.parameter_schema[1].required = TRUE
                      /\ v.config.parameter_schema[1].explode = FALSE
                      /\ v.config.parameter_schema[1].style = "form"
                      /\ v.config.version = "draft4"

\* the request-validator configuration in effect for an operation: the one
\* declared nearest to it
ValidatorConfigOf(d, S) ==
    LET T == CHOOSE T \in {S, ParentOf(S), DocScope} :
                 /\ ValidatorName \in DOMAIN LocalExt(d, T).plugins
                 /\ \A U \in {S, ParentOf(S), DocScope} :
                        ValidatorName \in DOMAIN LocalExt(d, U).plugins
                            => \/ T = S
                               \/ T = ParentOf(S) /\ U # S
                               \/ U = DocScope
    IN  LocalExt(d, T).plugins[ValidatorName]

\* no plugin in effect for the operation is named after the request-validator,
\* so that inserting the validator into the route's list appends it
ValidatorSortsLast(d, S) ==
    \A T \in {S, ParentOf(S), DocScope} :
        \A n \in DOMAIN LocalExt(d, T).plugins : ~NameLess(ValidatorName, n)

\* C14: with a request-validator configuration in effect and neither a
\* parameter_schema nor a body_schema produced, the route carries the
\* validator with body_schema "{}" whenever allowed_content_types exists,
\* in the plugin's config or as the content types of the request body, and
\* carries no validator only when it exists in neither form.  Stated for
\* operations whose plugins all sort up to the request-validator, where
\* insertPlugin appends.
C14_EmptyBodySchema ==
    result.ok =>
        \A S \in OperationsOf(doc) :
            LET operation == doc.paths[S.path].ops[S.method]
                config == ValidatorConfigOf(doc, S)
                explicit == config.allowed_content_types # <<>>
                implicit == DOMAIN operation.content # {}
            IN  /\ ValidatorInEffect(doc, S)
                /\ ValidatorSortsLast(doc, S)
                /\ config.parameter_schema = <<>> /\ operation.parameters = <<>>
                /\ config.body_schema = ""
                /\ \A c \in DOMAIN operation.content : ~IsJsonType(c)
                => IF explicit \/ implicit
                   THEN \E v \in ValidatorsOn(result.services, doc, S) :
                            v.config.body_schema = "{}"
                   ELSE ValidatorsOn(result.services, doc, S) = {}

\* an extension of the document that is not a plain object, or a server
\* URL that is no URL of a server
MalformedUri(server) == server.url \in {RelativeUrl, BraceUrl, BigPortUrl}

Malformed(d) ==
    \E S \in ScopesOf(d) :
        \/ DOMAIN LocalExt(d, S).forms # {}
        \/ \E i \in 1..Len(LocalServers(d, S)) : MalformedUri(LocalServers(d, S)[i])

\* C15: for a document with a malformed extension or server URI at any
\* scope Convert returns an error and no document: the run ends neither
\* with a document nor in a panic.
C15_MalformedIsError ==
    Malformed(doc) => pc \notin {"done", "panic"}

\* C16: the port of a service is the port of the first server URL, for
\* every port from 1 to 65535 that the URL gives.
C16_ExplicitPort ==
    result.ok =>
        \A scheme \in Schemes, port \in Ports :
            doc.servers = <<Server(UrlOf(scheme, port), NoVariables)>>
                => result.services[docService].port = port

\* the first URI of the document's servers block with the defaults applied
FirstTarget(d) ==
    LET order   == CHOOSE o \in RangeOrders(d.servers) : TRUE
        default == IF d.ext.sd.set /\ d.ext.sd.protocol # <<>>
                   THEN d.ext.sd.protocol ELSE <<"h", "t", "t", "p", "s">>
    IN  setServerDefaults(parseServerUris(d.servers, order).targets, default)[1]

\* C17: when the first server URI has no port after the defaults were
\* applied, the service port is 443 if the protocol is https and 80 for
\* every other protocol.
C17_DefaultPort ==
    result.ok =>
        (Port(FirstTarget(doc)) = <<>>
            => result.services[docService].port =
                   IF result.services[docService].protocol = <<"h", "t", "t", "p", "s">>
                   THEN 443 ELSE 80)

\* C17 as the factory does it: a URI without a port after the defaults has
\* a protocol that is neither http nor https, whether it comes from the
\* server URL or from x-kong-service-defaults, and the service port is 443.
C17_DefaultPortIs443 ==
    result.ok =>
        (Port(FirstTarget(doc)) = <<>>
            => /\ result.services[docService].protocol \notin {<<"h", "t", "t", "p">>, <<"h", "t", "t", "p", "s">>}
               /\ result.services[docService].protocol = FirstTarget(doc).Scheme
               /\ result.services[docService].port = 443)

\* reached: a service whose protocol, other than http and https, comes from
\* x-kong-service-defaults, the server URL being a path without a port
C17_Witness ==
    /\ result.ok
    /\ doc.servers = <<Server(PathOnlyUrl, NoVariables)>>
    /\ doc.ext.sd.protocol = <<"g", "r", "p", "c">>
    /\ Port(FirstTarget(doc)) = <<>>
    /\ result.services[docService].protocol = <<"g", "r", "p", "c">>
    /\ result.services[docService].port = 443

(***************************************************************************)
(* Properties of package kong (FactorySpec)                                *)
(***************************************************************************)

\* the port of a URI as a number, NoPort when Port() is ""
PortNumber(u) == IF Port(u) = <<>> THEN NoPort ELSE DecimalValue(Port(u))

\* C18: setServerDefaults fills each URI in this order: an absent host
\* becomes localhost; an absent scheme becomes http for port 80, https for
\* port 443 and the default scheme otherwise; an absent port becomes 80 for
\* scheme http and 443 for scheme https.  A hostname, a scheme or a port
\* that is there is not changed.
C18_ServerDefaults ==
    unitOut.op = "setServerDefaults" =>
        /\ Len(unitOut.defaulted) = Len(unitIn.targets)
        /\ \A i \in 1..Len(unitIn.targets) :
              LET in  == unitIn.targets[i]
                  out == unitOut.defaulted[i]
              IN  /\ Hostname(out) = IF HostIsEmpty(in) THEN <<"l", "o", "c", "a", "l", "h", "o", "s", "t">>
                                     ELSE Hostname(in)
                  /\ out.Scheme = IF in.Scheme # <<>> THEN in.Scheme
                                  ELSE IF PortNumber(in) = 80 THEN <<"h", "t", "t", "p">>
                                  ELSE IF PortNumber(in) = 443 THEN <<"h", "t", "t", "p", "s">>
                                  ELSE unitIn.schemeDefault
                  /\ PortNumber(out) =
                         IF PortNumber(in) # NoPort THEN PortNumber(in)
                         ELSE IF out.Scheme = <<"h", "t", "t", "p">> THEN 80
                         ELSE IF out.Scheme = <<"h", "t", "t", "p", "s">> THEN 443
                         ELSE NoPort
                  /\ out.Path = in.Path

\* C19: for an empty servers block parseServerUris returns one URI, with
\* path "/" and no host, scheme or port, and CreateKongService builds a
\* service with path "/" and the protocol of the service defaults or https:
\* without upstream defaults one with host localhost and no upstream, with
\* upstream defaults one on an upstream with exactly one target.
C19_EmptyServers ==
    unitIn.servers = <<>> =>
        /\ unitOut.op = "parseServerUris" =>
              /\ ~unitOut.parsed.err
              /\ unitOut.parsed.targets = << Url(<<>>, <<>>, NoPort, <<"/">>) >>
        /\ unitOut.op = "CreateKongService" =>
              LET service  == unitOut.created.service
                  upstream == unitOut.created.upstream
              IN  /\ ~unitOut.created.err
                  /\ service.path = <<"/">>
                  /\ service.protocol =
                         IF unitIn.serviceDefaults.protocol # <<>>
                         THEN unitIn.serviceDefaults.protocol ELSE <<"h", "t", "t", "p", "s">>
                  /\ IF unitIn.upstreamDefaults.set
                     THEN /\ upstream.set
                          /\ Len(upstream.targets) = 1
                          /\ service.host = upstream.name
                     ELSE /\ ~upstream.set
                          /\ service.host = <<"l", "o", "c", "a", "l", "h", "o", "s", "t">>

\* reached: a service made for an empty servers block under upstream
\* defaults and service defaults with a protocol
C19_Witness ==
    /\ unitOut.op = "CreateKongService"
    /\ unitIn.servers = <<>>
    /\ unitIn.upstreamDefaults.set
    /\ unitIn.serviceDefaults.protocol = <<"g", "r", "p", "c">>
    /\ unitOut.created.service.protocol = <<"g", "r", "p", "c">>
    /\ Len(unitOut.created.upstream.targets) = 1

\* a server URL with every placeholder of a declared variable replaced by
\* the variable's default, in one pass from left to right
RECURSIVE ExpandDefaults(_, _)
ExpandDefaults(url, variables) ==
    IF url = <<>> THEN <<>>
    ELSE LET names == { n \in DOMAIN variables :
                          /\ Len(n) + 2 <= Len(url)
                          /\ SubSeq(url, 1, Len(n) + 2) = <<"{">> \o n \o <<"}">> }
         IN  IF names = {} THEN <<Head(url)>> \o ExpandDefaults(Tail(url), variables)
             ELSE LET n == CHOOSE n \in names : TRUE
                  IN  variables[n].default
                          \o ExpandDefaults(SubSeq(url, Len(n) + 3, Len(url)), variables)

\* C20: parseServerUris replaces every {name} of a declared variable in a
\* server URL by the variable's default, and the scheme, host and path of
\* the URI it returns are those of the expanded URL.
C20_VariablesExpanded ==
    (unitOut.op = "parseServerUris" /\ ~unitOut.parsed.err) =>
        \A i \in 1..Len(unitIn.servers) :
            LET expanded == ExpandDefaults(unitIn.servers[i].url,
                                           unitIn.servers[i].variables)
            IN  unitOut.parsed.targets[i] = ParseRequestURI(expanded).url

(***************************************************************************)
(* Properties of the output as a whole                                     *)
(***************************************************************************)

\* a path or operation scope is visited before another: paths in ascending
\* string order, a path before its operations, the operations of a path in
\* ascending order of their methods
VisitedBefore(S, T) ==
    \/ StrLess(S.path, T.path)
    \/ S.path = T.path /\ StrLess(S.method, T.method)

\* a set of path and operation scopes in the order of their visits
RECURSIVE InVisitOrder(_)
InVisitOrder(scopes) ==
    IF scopes = {} THEN <<>>
    ELSE LET first == CHOOSE S \in scopes :
                          \A T \in scopes \ {S} : VisitedBefore(S, T)
         IN  <<first>> \o InVisitOrder(scopes \ {first})

\* the scopes that have a service of their own, the document first
ServiceScopes(d) ==
    <<DocScope>> \o InVisitOrder({ S \in PathsOf(d) \cup OperationsOf(d) :
                                     DeclaresService(d, S) })

\* C21: the output follows the traversal: services[0] is the document's
\* service, the services of paths and operations follow in the order their
\* scopes are visited (paths ascending, a path before its operations,
\* methods ascending), and the routes of any one service are those of its
\* operations in ascending (path, method) order.
C21_OutputOrder ==
    result.ok =>
        LET scopes == ServiceScopes(doc)
        IN  /\ Len(result.services) = Len(scopes)
            /\ \A i \in 1..Len(scopes) :
                  LET routed == InVisitOrder({ S \in OperationsOf(doc) :
                                                 ServiceScopeOf(doc, S) = scopes[i] })
                      routes == result.services[i].routes
                  IN  /\ result.services[i].name = BaseNameOf(doc, scopes[i])
                      /\ Len(routes) = Len(routed)
                      /\ \A j \in 1..Len(routed) :
                            /\ routes[j].name = BaseNameOf(doc, routed[j])
                            /\ routes[j].methods = <<routed[j].method>>

\* reached: an output with the services of two scopes after the document's
\* and a service with the routes of two operations
C21_Witness ==
    /\ result.ok
    /\ Len(result.services) >= 3
    /\ \E i \in 1..Len(result.services) : Len(result.services[i].routes) >= 2
    /\ \E i \in 1..Len(result.services) :
          \E j \in 1..Len(result.services[i].routes) :
              result.services[i].routes[j].methods = <<POST>>

\* a sorted list with a plugin put before its first entry of a greater
\* name, or at its end if there is none
InsertedSorted(list, plugin) ==
    LET greater == { i \in 1..Len(list) : NameLess(plugin.name, list[i].name) }
        k == IF greater = {} THEN Len(list) + 1
             ELSE CHOOSE i \in greater : \A j \in greater : i <= j
    IN  SubSeq(list, 1, k - 1) \o <<plugin>> \o SubSeq(list, k, Len(list))

\* C22 (FactorySpec): insertPlugin on a list sorted by name returns, for a
\* plugin, the entries of the list, each once, with the plugin before the
\* first entry of a greater name or at the end, and for nil the list as it
\* is; it does not fail.
C22_InsertPlugin ==
    unitOut.op = "insertPlugin" =>
        /\ ~unitOut.inserted.panic
        /\ unitOut.inserted.list =
              IF unitIn.plugin = NoPlugin THEN unitIn.list
              ELSE InsertedSorted(unitIn.list, unitIn.plugin)

\* a path or operation scope has a service of its own for its service
\* defaults alone, and the factory returns an upstream for it: the upstream
\* defaults or the two or more servers in effect are an ancestor's
ServiceDefaultsAlone(d, S) ==
    /\ LocalExt(d, S).sd.set
    /\ ~LocalExt(d, S).ud.set
    /\ LocalServers(d, S) = <<>>
    /\ \/ EffectiveUpstreamDefaults(d, S).set
       \/ Len(EffectiveServers(d, S)) >= 2

\* the position in the services list of the service of a scope that has one
ServiceIndex(d, S) ==
    CHOOSE i \in 1..Len(ServiceScopes(d)) : ServiceScopes(d)[i] = S

\* C23: the upstream the factory returns for a path or operation that has a
\* service for its service defaults alone is not in the output, and the host
\* of that service is the host of the service of the parent scope, which is
\* an upstream of the output: no upstream is named after the scope and the
\* host is no such name, unless another scope of the same base name emits
\* one.
C23_UpstreamDiscarded ==
    result.ok =>
        \A S \in PathsOf(doc) \cup OperationsOf(doc) :
            ServiceDefaultsAlone(doc, S) =>
                LET service == result.services[ServiceIndex(doc, S)]
                    parent  == result.services[
                                   ServiceIndex(doc, ServiceScopeOf(doc, ParentOf(S)))]
                IN  /\ service.name = BaseNameOf(doc, S)
                    /\ service.host = parent.host
                    /\ service.host \in UpstreamNames(result.upstreams)
                    /\ Len(result.upstreams) =
                          Cardinality({ T \in ScopesOf(doc) : EmitsUpstream(doc, T) })
                    /\ UpstreamName(BaseNameOf(doc, S))
                          \in UpstreamNames(result.upstreams) \cup {service.host}
                          => \E T \in ScopesOf(doc) \ {S} :
                                 /\ EmitsUpstream(doc, T)
                                 /\ BaseNameOf(doc, T) = BaseNameOf(doc, S)

\* reached: an operation with service defaults alone under a path whose
\* own server makes an upstream of the document's upstream defaults: the
\* operation's service is on the path's upstream
C23_Witness ==
    /\ result.ok
    /\ \E S \in OperationsOf(doc) :
          /\ ServiceDefaultsAlone(doc, S)
          /\ LocalServers(doc, ParentOf(S)) # <<>>
          /\ result.services[ServiceIndex(doc, S)].host =
                UpstreamName(BaseNameOf(doc, ParentOf(S)))
          /\ UpstreamName(BaseNameOf(doc, S)) \notin UpstreamNames(result.upstreams)

\* the scope whose x-kong-plugin-request-validator is in effect for an
\* operation: the operation, else its path, else the document
ValidatorScopeOf(d, S) ==
    IF ValidatorName \in DOMAIN LocalExt(d, S).plugins THEN S
    ELSE IF ValidatorName \in DOMAIN LocalExt(d, ParentOf(S)).plugins THEN ParentOf(S)
    ELSE DocScope

\* C24: the request-validator config an operation's validator is made from
\* is the one declared nearest to the operation (operation, else path, else
\* document), whichever scopes have a service of their own, and none if no
\* scope declares one; the plugin made from it has the id derived from the
\* operation's base name; no service's plugin list holds a request-validator.
C24_ValidatorConfig ==
    /\ OperationHandled =>
          LET S == LastOperation
          IN  /\ IF ValidatorInEffect(doc, S)
                 THEN /\ operationValidatorConfig.name = ValidatorName
                      /\ operationValidatorConfig.body = ValidatorScopeOf(doc, S)
                      /\ operationValidatorConfig.config =
                            LocalExt(doc, ValidatorScopeOf(doc, S)).plugins[ValidatorName]
                 ELSE operationValidatorConfig = NoPlugin
              /\ validatorPlugin # NoPlugin =>
                    /\ validatorPlugin.name = ValidatorName
                    /\ validatorPlugin.body = operationValidatorConfig.body
                    /\ validatorPlugin.id =
                          createPluginId(OperationBase(doc, S), ValidatorName)
    /\ \A i \in 1..Len(services) :
          \A k \in 1..Len(services[i].plugins) :
              services[i].plugins[k].name # ValidatorName

\* reached: an operation with a service of its own, under a path and a
\* document that both declare a request-validator, has its validator made
\* from the path's
C24_Witness ==
    /\ result.ok
    /\ OperationHandled
    /\ DeclaresService(doc, LastOperation)
    /\ ValidatorName \in DOMAIN doc.ext.plugins
    /\ ValidatorName \in DOMAIN LocalExt(doc, ParentOf(LastOperation)).plugins
    /\ ValidatorName \notin DOMAIN LocalExt(doc, LastOperation).plugins
    /\ validatorPlugin.body = ParentOf(LastOperation)

\* the URIs of a servers block as CreateKongService resolves them for the
\* service: the default scheme is the protocol of the service defaults, else
\* https
ResolvedUris(servers, serviceDefaults, order) ==
    setServerDefaults(parseServerUris(servers, order).targets,
                      IF serviceDefaults.set /\ serviceDefaults.protocol # <<>>
                      THEN serviceDefaults.protocol ELSE <<"h", "t", "t", "p", "s">>)

\* C25 (FactorySpec): the targets of an upstream the factory builds are
\* those of the URIs resolved for the service: one per server, in the order
\* of the servers, each the host and the port of its URI, and the port of
\* the first is the port of the service.
C25_UpstreamTargets ==
    (unitOut.op = "CreateKongService" /\ ~unitOut.created.err
        /\ unitOut.created.upstream.set) =>
        \E order \in RangeOrders(unitIn.servers) :
            LET resolved == ResolvedUris(unitIn.servers, unitIn.serviceDefaults, order)
                targets  == unitOut.created.upstream.targets
            IN  /\ Len(targets) = Len(resolved)
                /\ Len(unitIn.servers) > 0 => Len(targets) = Len(unitIn.servers)
                /\ \A i \in 1..Len(targets) :
                      /\ targets[i].target = resolved[i].Host
                      /\ Hostname(resolved[i]) # <<>>
                      /\ Port(resolved[i]) # <<>>
                /\ PortNumber([Host |-> targets[1].target])
                      = unitOut.created.service.port

\* the plugins of the document's service: the document's plugin
\* extensions but the request-validator, with ids from the document's base
\* name
DocumentPluginsKept(d, svcs) ==
    /\ Entries(svcs[docService].plugins) =
          WithoutValidatorOf(MergedPlugins(d, <<DocScope>>), DocScope)
    /\ IdsFrom(svcs[docService].plugins, BaseNameOf(d, DocScope))

\* C26 as stated: when Convert has finished, the plugins of the document's
\* service are the document's declarations but the request-validator, with
\* ids from the document's base name, and the plugins of the service of a
\* path are those merged with the path's declarations, with ids from the
\* path's base name, whatever the paths and operations below did with them.
C26_AncestorPluginsMerged ==
    result.ok =>
        /\ DocumentPluginsKept(doc, result.services)
        /\ \A P \in PathsOf(doc) :
              DeclaresService(doc, P) =>
                  LET service == result.services[ServiceIndex(doc, P)]
                  IN  /\ Entries(service.plugins) =
                            WithoutValidatorOf(MergedPlugins(doc, <<DocScope, P>>),
                                               DocScope)
                      /\ IdsFrom(service.plugins, BaseNameOf(doc, P))

\* C26, amended: as above, the plugins of the service of a path being the
\* merged declarations but the request-validator, the path's own included.
C26_AncestorPluginsButValidator ==
    result.ok =>
        /\ DocumentPluginsKept(doc, result.services)
        /\ \A P \in PathsOf(doc) :
              DeclaresService(doc, P) =>
                  LET service == result.services[ServiceIndex(doc, P)]
                  IN  /\ Entries(service.plugins) =
                            WithoutValidatorOf(
                                WithoutValidatorOf(MergedPlugins(doc, <<DocScope, P>>),
                                                   DocScope), P)
                      /\ IdsFrom(service.plugins, BaseNameOf(doc, P))

\* reached: a path with a service that carries a plugin of the document and
\* one of its own, above an operation with a service of its own, whose
\* route carries both under the operation's ids
C26_Witness ==
    /\ result.ok
    /\ \E S \in OperationsOf(doc) :
          /\ DeclaresService(doc, S)
          /\ DeclaresService(doc, ParentOf(S))
          /\ LET plugins == result.services[ServiceIndex(doc, ParentOf(S))].plugins
                 routes  == result.services[ServiceIndex(doc, S)].routes
             IN  /\ \E k \in 1..Len(plugins) : plugins[k].body = DocScope
                 /\ \E k \in 1..Len(plugins) : plugins[k].body = ParentOf(S)
                 /\ Len(routes) = 1
                 /\ Len(routes[1].plugins) = 2
                 /\ IdsFrom(routes[1].plugins, BaseNameOf(doc, S))

(***************************************************************************)
(* Properties of the schema walker (SchemaSpec)                            *)
(***************************************************************************)

\* the subschemas of a schema: what is in its allOf, anyOf, oneOf,
\* properties, not, additionalProperties and items
SubschemaRefs(schema) ==
    ({ schema.allOf[i] : i \in 1..Len(schema.allOf) }
        \cup { schema.anyOf[i] : i \in 1..Len(schema.anyOf) }
        \cup { schema.oneOf[i] : i \in 1..Len(schema.oneOf) }
        \cup { schema.properties[k] : k \in DOMAIN schema.properties }
        \cup {schema.not, schema.additionalProperties, schema.items})
      \ {SchemaNil}

\* the schemas that can be reached from a set of schemas
RECURSIVE SchemasFrom(_, _)
SchemasFrom(table, S) ==
    LET next == S \cup UNION { { sr.value : sr \in SubschemaRefs(table[id]) } :
                               id \in S }
    IN  IF next = S THEN S ELSE SchemasFrom(table, next)

\* the $refs that can be reached from the root: each with its target
ReachableRefs(u) ==
    IF u.root = SchemaNil THEN {}
    ELSE { sr \in {u.root} \cup
                    UNION { SubschemaRefs(u.schemas[id]) :
                              id \in SchemasFrom(u.schemas, {u.root.value}) } :
             sr.ref # "" }

\* extractSchema has the definitions the walk collected
Extracted == unitOut.op = "extractSchema"

\* C27 (SchemaSpec): the walk of dereferenceSchema comes to an end on every
\* schema, also where $refs form a cycle, and the definitions it has
\* collected then are the targets of the $refs that can be reached from the
\* root through allOf, anyOf, oneOf, properties, not, additionalProperties
\* and items, one entry for each.
C27_WalkerTerminates ==
    /\ <>Extracted
    /\ [](Extracted =>
            /\ DOMAIN unitOut.seenBefore = { sr.ref : sr \in ReachableRefs(unitIn) }
            /\ \A sr \in ReachableRefs(unitIn) : unitOut.seenBefore[sr.ref] = sr.value
            /\ DOMAIN unitOut.definitions =
                  { DefinitionKey(sr.ref) : sr \in ReachableRefs(unitIn) }
            /\ Cardinality(DOMAIN unitOut.definitions) =
                  Cardinality(ReachableRefs(unitIn)))

\* reached: the walk has ended on a schema in which A refers to B and B to
\* A, with both among the definitions
C27_Witness ==
    /\ Extracted
    /\ SchemaRefTo(SchemaB) \in SubschemaRefs(unitIn.schemas[SchemaA])
    /\ SchemaRefTo(SchemaA) \in SubschemaRefs(unitIn.schemas[SchemaB])
    /\ DOMAIN unitOut.definitions = {"A", "B"}


(***************************************************************************)
(* Properties of a run of Convert as a whole                               *)
(***************************************************************************)

\* C28: Convert does not crash: a run is never ended by a panic (in
\* insertPlugin, the slice list[:i-1] taken at the first entry of the list),
\* and a run that has ended has returned either a document and no error or
\* an error and no document.
C28_ConvertNeverCrashes ==
    /\ pc # "panic"
    /\ pc = "done" => result.ok
    /\ pc = "error" => ~result.ok


\* the routes of all services of a list, in order
RECURSIVE AllRoutes(_)
AllRoutes(svcs) ==
    IF svcs = <<>> THEN <<>>
    ELSE Head(svcs).routes \o AllRoutes(Tail(svcs))

\* no two entities of a list have the same id or the same name
DistinctEntities(list) ==
    \A i, j \in 1..Len(list) :
        i # j => /\ list[i].id # list[j].id
                 /\ list[i].name # list[j].name

\* C29: in the document Convert returns no two services have the same id or
\* the same name, and neither have two routes or two upstreams, whatever the
\* paths, the x-kong-names and the operationIds are.
C29_UniqueIdsAndNames ==
    pc = "done" =>
        /\ DistinctEntities(result.services)
        /\ DistinctEntities(AllRoutes(result.services))
        /\ DistinctEntities(result.upstreams)

\* the same, for services alone, for routes alone and for upstreams alone
UniqueServices == pc = "done" => DistinctEntities(result.services)

UniqueRoutes == pc = "done" => DistinctEntities(AllRoutes(result.services))

UniqueUpstreams == pc = "done" => DistinctEntities(result.upstreams)


(***************************************************************************)
(* Properties of siblings                                                  *)
(***************************************************************************)

\* the document with the path and the operation of S only: S without its
\* siblings
Alone(d, S) ==
    [d EXCEPT !.paths =
        (S.path :> [d.paths[S.path] EXCEPT !.ops =
                       (S.method :> d.paths[S.path].ops[S.method])])]

\* the effective service defaults and route defaults: the scope's own,
\* else the nearest ancestor's
RECURSIVE EffectiveServiceDefaults(_, _)
EffectiveServiceDefaults(d, S) ==
    IF S = DocScope \/ LocalExt(d, S).sd.set THEN LocalExt(d, S).sd
    ELSE EffectiveServiceDefaults(d, ParentOf(S))

RECURSIVE EffectiveRouteDefaults(_, _)
EffectiveRouteDefaults(d, S) ==
    IF S = DocScope \/ LocalExt(d, S).rd.set THEN LocalExt(d, S).rd
    ELSE EffectiveRouteDefaults(d, ParentOf(S))

\* the plugin entries of the service of a scope that has one
ServicePluginsOf(d, T) ==
    IF T = DocScope
    THEN WithoutValidatorOf(MergedPlugins(d, <<DocScope>>), DocScope)
    ELSE IF T.method = <<>>
    THEN WithoutValidatorOf(
             WithoutValidatorOf(MergedPlugins(d, <<DocScope, T>>), DocScope), T)
    ELSE <<>>

\* the plugin entries collected for the route of an operation
RoutePluginsOf(d, S) ==
    IF DeclaresService(d, S)
    THEN MergedPlugins(d, <<DocScope, ParentOf(S), S>>)
    ELSE IF DeclaresService(d, ParentOf(S))
    THEN MergedPlugins(d, <<S>>)
    ELSE WithoutValidatorOf(MergedPlugins(d, <<ParentOf(S), S>>), ParentOf(S))

\* a service without its routes and its plugins
ServiceCore(s) ==
    [defaults |-> s.defaults, id |-> s.id, name |-> s.name,
     protocol |-> s.protocol, path |-> s.path, port |-> s.port, host |-> s.host]

\* the services Convert can make for a scope that has one, from the
\* declarations of the scope and of its ancestors: the factory's, on the
\* host of the parent's service where its upstream is not kept
RECURSIVE ServicesFor(_, _)
ServicesFor(d, T) ==
    LET servers == EffectiveServers(d, T)
        parents == IF T = DocScope THEN {}
                   ELSE ServicesFor(d, ServiceScopeOf(d, ParentOf(T)))
        kept    == T = DocScope \/ NeedNewUpstream(LocalExt(d, T), LocalServers(d, T))
    IN  UNION { LET c == CreateKongService(BaseNameOf(d, T), servers,
                                           EffectiveServiceDefaults(d, T),
                                           EffectiveUpstreamDefaults(d, T), o, uo)
                IN  IF c.upstream.set /\ ~kept
                    THEN { [ServiceCore(c.service) EXCEPT !.host = q.host] :
                             q \in parents }
                    ELSE { ServiceCore(c.service) } :
                o \in RangeOrders(servers), uo \in RangeOrders(servers) }

\* the service that has the route of the operation handled last
ServiceOfLast ==
    services[IF DeclaresService(doc, LastOperation) THEN Len(services)
             ELSE pathService]

RouteOfLast == ServiceOfLast.routes[Len(ServiceOfLast.routes)]

\* C30: what is declared at a path or an operation does not reach its
\* siblings: the route of every operation handled, with its route defaults,
\* its plugin list and the request-validator config it is made from, and the
\* service that route is in, with its defaults, its host and its plugin
\* list, are what the declarations of the operation, its path and the
\* document give in the document without the operation's siblings; so an
\* operation or a path without declarations of its own gets what it would
\* get without the siblings before it.
C30_NoLeakBetweenSiblings ==
    OperationHandled /\ pc # "panic" =>
        LET S  == LastOperation
            A  == Alone(doc, S)
            T  == ServiceScopeOf(A, S)
            op == A.paths[S.path].ops[S.method]
        IN  /\ RouteOfLast.name = BaseNameOf(A, S)
            /\ RouteOfLast.methods = <<S.method>>
            /\ RouteOfLast.defaults = EffectiveRouteDefaults(A, S)
            /\ Entries(operationPluginList) = RoutePluginsOf(A, S)
            /\ IdsFrom(operationPluginList, BaseNameOf(A, S))
            /\ IF ValidatorInEffect(A, S)
               THEN /\ operationValidatorConfig.name = ValidatorName
                    /\ operationValidatorConfig.body = ValidatorScopeOf(A, S)
                    /\ operationValidatorConfig.config =
                          LocalExt(A, ValidatorScopeOf(A, S)).plugins[ValidatorName]
               ELSE operationValidatorConfig = NoPlugin
            /\ validatorPlugin \in
                  { generateValidatorPlugin(operationValidatorConfig, op,
                                            BaseNameOf(A, S), b) :
                      b \in BodySchemaChoices(op) }
            /\ RouteOfLast.plugins =
                  insertPlugin(getValidatorPlugin(operationPluginList, NoPlugin).list,
                               validatorPlugin).list
            /\ ServiceCore(ServiceOfLast) \in ServicesFor(A, T)
            /\ Entries(ServiceOfLast.plugins) = ServicePluginsOf(A, T)
            /\ IdsFrom(ServiceOfLast.plugins, BaseNameOf(A, T))

\* a scope declares nothing: no defaults, no servers, no plugins
DeclaresNothing(d, S) ==
    /\ ~DeclaresService(d, S)
    /\ ~LocalExt(d, S).rd.set
    /\ DOMAIN LocalExt(d, S).plugins = {}

\* reached: a document is returned in which the last path and its
\* operation declare nothing, after a path that declares route defaults and
\* a plugin; the last route has neither and is in the document's service
C30_Witness ==
    /\ result.ok
    /\ OperationHandled
    /\ DeclaresNothing(doc, LastOperation)
    /\ DeclaresNothing(doc, ParentOf(LastOperation))
    /\ \E p \in DOMAIN doc.paths :
          /\ p # LastOperation.path
          /\ LocalExt(doc, PathScope(p)).rd.set
          /\ DOMAIN LocalExt(doc, PathScope(p)).plugins # {}
    /\ ~RouteOfLast.defaults.set
    /\ RouteOfLast.plugins = <<>>
    /\ ServiceOfLast.name = BaseNameOf(doc, DocScope)

\* reached: the second operation of a path declares nothing, after a first
\* that has a service of its own and a request-validator; the second route
\* has no plugin and is in the document's service
C30_WitnessOperation ==
    /\ OperationHandled
    /\ pc # "panic"
    /\ DeclaresNothing(doc, LastOperation)
    /\ \E m \in DOMAIN doc.paths[LastOperation.path].ops :
          /\ m # LastOperation.method
          /\ DeclaresService(doc, OpScope(LastOperation.path, m))
          /\ ValidatorName \in
                DOMAIN LocalExt(doc, OpScope(LastOperation.path, m)).plugins
    /\ RouteOfLast.plugins = <<>>
    /\ ServiceOfLast.name = BaseNameOf(doc, DocScope)

=============================================================================
